---- MODULE Spec2Model ----
(***************************************************************************)
(* Order-book reconstruction of deltatrader: the integer converter, the    *)
(* OrderBook model (snapshot apply, delta apply, checksum) and the         *)
(* MarketDataManager message handler that drives it.                       *)
(*                                                                         *)
(* A Python str is a sequence of one-character strings, so that parsing,   *)
(* float comparison and the checksum text are computed, not assumed.       *)
(* TLC integers are 32-bit signed: a 32-bit unsigned value (a CRC) is kept *)
(* as the pair <<high 16 bits, low 16 bits>>.                              *)
(***************************************************************************)
EXTENDS Integers, Sequences, FiniteSets, TLC

VARIABLES
    product_scales,     \* IntegerConverter._product_scales: symbol -> scale
    orderbooks,         \* MarketDataManager._orderbooks: symbol -> OrderBook
    pending_snapshots,  \* MarketDataManager._pending_snapshots: symbol -> bool
    subscriptions,      \* WebSocketClient._subscriptions: set of channels
    recovering,         \* the handler suspended in gap recovery, holding _lock
    unsub_waiting,      \* unsubscribe_orderbook calls waiting for _lock
    sent,               \* transport requests issued by the latest handler run
    outcome,            \* how the latest handler run ended
    run,                \* per symbol: the last snapshot's sequence number and
                        \* the deltas applied since (history)
    orderbook_callbacks, \* MarketDataManager._orderbook_callbacks: a list
    notified,           \* callback tasks created by the latest handler run:
                        \* <<callback, symbol, book>>
    checksum_warned,    \* the latest handler run logged a checksum mismatch
    product_tick_sizes, \* IntegerConverter._product_tick_sizes: symbol -> int
    converted,          \* the latest conversion call: operation, arguments
                        \* and what it returned
    channel_handlers,   \* WebSocketClient._channel_handlers: channel -> list
    message_handlers,   \* WebSocketClient._message_handlers: type -> list
    dispatched,         \* the latest WebSocketClient._handle_message: the
                        \* handler tasks it created, the reply it sent
    ready_tasks,        \* the tasks of the manager's order-book handler
                        \* that were created and did not start yet, oldest
                        \* first: the message each will handle
    trades,             \* MarketDataManager._trades: symbol -> list of Trade
    trade_log,          \* per symbol: every trade parsed from a message
                        \* since the list was created, in arrival order
                        \* (history)
    orders,             \* PaperOrderManager._orders: client_order_id -> Order
    order_counter,      \* PaperOrderManager._order_counter
    paper_tasks,        \* coroutines of the paper manager suspended in
                        \* their asyncio.sleep
    cancel_result,      \* the latest cancel_order that returned: its
                        \* argument and what it returned
    views,              \* the OrderBook references consumers hold: what
                        \* the book was when handed out, what it is now
    connection          \* WebSocketClient: _running, the socket, the
                        \* reconnect counter, its subscription set, and
                        \* where its receive and watchdog tasks stand

\* The fields of the market data manager and of its transport.
managerVars == <<orderbooks, pending_snapshots, subscriptions, recovering,
                 unsub_waiting, sent, outcome, run, orderbook_callbacks,
                 notified, checksum_warned>>

\* What the consumers of the manager hold.
consumerVars == <<views>>

\* The connection of the transport.
connectionVars == <<connection>>

\* The fields of the paper order manager and its suspended coroutines.
paperVars == <<orders, order_counter, paper_tasks, cancel_result>>

\* The handler registry of the transport and what it last dispatched.
transportVars == <<channel_handlers, message_handlers, dispatched,
                   ready_tasks>>

\* What no operation of the market data manager writes.  (The handler
\* that subscribe_orderbook registers with the transport is registered by
\* AddHandler, an operation of the transport.)
steadyVars == <<product_tick_sizes, converted, transportVars, paperVars,
                consumerVars, connectionVars>>

\* The trade lists of the manager.
tradeVars == <<trades, trade_log>>

\* What no order-book operation of the manager writes.
otherVars == <<steadyVars, tradeVars>>

\* What no operation of the converter writes.
besideConverter == <<managerVars, transportVars, tradeVars, paperVars,
                     consumerVars, connectionVars>>

vars == <<product_scales, orderbooks, pending_snapshots, subscriptions,
          recovering, unsub_waiting, sent, outcome, run,
          orderbook_callbacks, notified, checksum_warned,
          product_tick_sizes, converted,
          channel_handlers, message_handlers, dispatched, ready_tasks,
          trades, trade_log,
          orders, order_counter, paper_tasks, cancel_result, views,
          connection>>

----------------------------------------------------------------------------
(* Bounds of the model.                                                    *)

\* Highest sequence number a message carries.
MaxSeq == 3
\* Most levels one side of a snapshot message lists.
MaxSnapLevels == 2
\* Deepest ladder (levels per side) of the checksum specification.
MaxDepth == 11
\* Longest callback list.
MaxCallbacks == 2

----------------------------------------------------------------------------
(* Program constants.                                                      *)

\* get_scale's default for an unregistered symbol; the fixed size scale.
DefaultScale == 100000000
\* compute_checksum takes this many levels per side.
ChecksumLevels == 10
\* integer_to_size divides the integers above this by the size scale.
SizeThreshold == 1000000
\* MarketDataManager._max_trades_per_symbol
max_trades_per_symbol == 100
\* Config.ORDERBOOK_CHANNEL's default.
ORDERBOOK_CHANNEL == "l2_orderbook"

Symbols == {"BTCUSD"}
\* Tick sizes of the products the engine registers.
TickSize == <<"0", ".", "0", "1">>

----------------------------------------------------------------------------
(* Python values: dict lookup, str, Decimal, float, int.                   *)

Has(d, k) == k \in DOMAIN d
\* dict.get(k, default)
Get(d, k, default) == IF Has(d, k) THEN d[k] ELSE default

DigitChars == {"0", "1", "2", "3", "4", "5", "6", "7", "8", "9"}

DigitValue(c) ==
    CASE c = "0" -> 0 [] c = "1" -> 1 [] c = "2" -> 2 [] c = "3" -> 3
      [] c = "4" -> 4 [] c = "5" -> 5 [] c = "6" -> 6 [] c = "7" -> 7
      [] c = "8" -> 8 [] c = "9" -> 9

RECURSIVE Pow10(_)
Pow10(n) == IF n = 0 THEN 1 ELSE 10 * Pow10(n - 1)

\* "." in s
HasDot(s) == \E i \in 1..Len(s) : s[i] = "."

\* The literals Decimal(s) and float(s) accept, among unsigned fixed-point
\* text: digits with at most one point and at least one digit.  Any other
\* character makes both constructors raise.
IsDecimalLiteral(s) ==
    /\ \A i \in 1..Len(s) : s[i] \in DigitChars \cup {"."}
    /\ Cardinality({i \in 1..Len(s) : s[i] = "."}) <= 1
    /\ \E i \in 1..Len(s) : s[i] \in DigitChars

\* The literals int(s) accepts: digits only.
IsIntLiteral(s) ==
    /\ Len(s) > 0
    /\ \A i \in 1..Len(s) : s[i] \in DigitChars

RECURSIVE DigitsValue(_, _)
\* The number written by the digits of s, the point skipped.
DigitsValue(s, acc) ==
    IF s = <<>> THEN acc
    ELSE IF Head(s) = "." THEN DigitsValue(Tail(s), acc)
    ELSE DigitsValue(Tail(s), 10 * acc + DigitValue(Head(s)))

\* Number of digits after the point.
FracDigits(s) ==
    IF HasDot(s)
    THEN Len(s) - (CHOOSE i \in 1..Len(s) : s[i] = ".")
    ELSE 0

\* Decimal(s): the exact value coef / 10^exp.
Decimal(s) == [coef |-> DigitsValue(s, 0), exp |-> FracDigits(s)]

DecLess(a, b) == a.coef * Pow10(b.exp) < b.coef * Pow10(a.exp)
DecEq(a, b) == a.coef * Pow10(b.exp) = b.coef * Pow10(a.exp)

\* float(s), for literals of at most 15 significant digits, on which the
\* conversion to a double is exact in order and equality: the value itself.
Float(s) == Decimal(s)
FloatEq(a, b) == DecEq(a, b)
FloatIsZero(a) == a.coef = 0
FloatIsPositive(a) == a.coef > 0

RECURSIVE MulDivPow10(_, _, _)
\* int(Decimal * scale): (coef * scale) / 10^exp truncated.  Common factors
\* of ten are cancelled first so that the product stays a 32-bit integer.
MulDivPow10(coef, scale, exp) ==
    IF exp > 0 /\ scale % 10 = 0
    THEN MulDivPow10(coef, scale \div 10, exp - 1)
    ELSE (coef * scale) \div Pow10(exp)

----------------------------------------------------------------------------
(* IntegerConverter.                                                       *)

\* register_product: the scale 10^d, d the fractional digits of tick_size
\* (the loop multiplies by ten until the value is whole).
RECURSIVE ScaleOfTick(_, _)
ScaleOfTick(tick, scale) ==
    IF tick.coef % Pow10(tick.exp) = 0 THEN scale
    ELSE ScaleOfTick([coef |-> tick.coef * 10, exp |-> tick.exp], scale * 10)

\* Mutant: registering a product sets the scale of every symbol.
register_product_every_symbol(scales, symbol, tick_size) ==
    [s \in DOMAIN scales \cup {symbol} |-> ScaleOfTick(Decimal(tick_size), 1)]

register_product(scales, symbol, tick_size) ==
    [s \in DOMAIN scales \cup {symbol} |->
        IF s = symbol THEN ScaleOfTick(Decimal(tick_size), 1) ELSE scales[s]]

get_scale(symbol) == Get(product_scales, symbol, DefaultScale)

\* price_to_integer raises unless the text is a Decimal literal.
PriceParses(price) == IsDecimalLiteral(price)

price_to_integer(symbol, price) ==
    MulDivPow10(Decimal(price).coef, get_scale(symbol), Decimal(price).exp)

\* size_to_integer on a str: Decimal * 10^8 with a point, int(s) without.
SizeParses(size) ==
    IF HasDot(size) THEN IsDecimalLiteral(size) ELSE IsIntLiteral(size)

size_to_integer(size) ==
    IF HasDot(size)
    THEN MulDivPow10(Decimal(size).coef, DefaultScale, Decimal(size).exp)
    ELSE DigitsValue(size, 0)

\* A size as the callers pass it: an int, or a str.
IntSize(n) == [isinstance |-> "int", value |-> n]
StrSize(s) == [isinstance |-> "str", value |-> s]

\* size_to_integer from its first line: an int is returned as it is.
size_to_integer_of(size) ==
    IF size.isinstance = "int" THEN size.value ELSE size_to_integer(size.value)

RECURSIVE TickSizeInt(_)
\* register_product: int(temp), the tick size once the loop has made it
\* whole.
TickSizeInt(tick) ==
    IF tick.coef % Pow10(tick.exp) = 0 THEN tick.coef \div Pow10(tick.exp)
    ELSE TickSizeInt([coef |-> tick.coef * 10, exp |-> tick.exp])

\* register_product: self._product_tick_sizes[product.symbol] = int(temp)
register_product_tick(ticks, symbol, tick_size) ==
    [s \in DOMAIN ticks \cup {symbol} |->
        IF s = symbol THEN TickSizeInt(Decimal(tick_size)) ELSE ticks[s]]

DigitChar(d) == CHOOSE c \in DigitChars : DigitValue(c) = d

RECURSIVE IntDigits(_)
\* str(n) of a natural number.
IntDigits(n) ==
    IF n < 10 THEN <<DigitChar(n)>>
    ELSE Append(IntDigits(n \div 10), DigitChar(n % 10))

RECURSIVE Quotient(_, _, _)
\* Decimal(n) / Decimal(scale), scale a power of ten: the exact quotient
\* coef / 10^exp with the exponent as near to zero as the value allows (a
\* whole quotient keeps its zeros, a fraction ends in a nonzero digit).
Quotient(coef, scale, exp) ==
    IF scale = 1 THEN [coef |-> coef, exp |-> exp]
    ELSE IF exp = 0 /\ coef % 10 = 0 THEN Quotient(coef \div 10, scale \div 10, 0)
    ELSE Quotient(coef, scale \div 10, exp + 1)

Zeros(n) == [i \in 1..n |-> "0"]

\* str(Decimal) of a value that is not negative: positional notation while
\* the first digit is no further than six places behind the point,
\* scientific notation beyond.
DecimalStr(d) ==
    LET digits == IntDigits(d.coef)
        left == Len(digits) - d.exp
    IN IF d.exp = 0 THEN digits
       ELSE IF left > -6
       THEN IF left <= 0 THEN <<"0", ".">> \o Zeros(-left) \o digits
            ELSE SubSeq(digits, 1, left) \o <<".">>
                 \o SubSeq(digits, left + 1, Len(digits))
       ELSE <<Head(digits)>>
            \o (IF Len(digits) > 1 THEN <<".">> \o Tail(digits) ELSE <<>>)
            \o <<"E", "-">> \o IntDigits(1 - left)

\* Mutant: the quotient is taken by the default scale.
integer_to_price_default_scale(symbol, price_int) ==
    DecimalStr(Quotient(price_int, DefaultScale, 0))

\* integer_to_price: str(Decimal(price_int) / Decimal(scale))
integer_to_price(symbol, price_int) ==
    DecimalStr(Quotient(price_int, get_scale(symbol), 0))

\* integer_to_size: above the threshold the integer is taken for a size
\* scaled by 10^8.
integer_to_size(size_int) ==
    IF size_int > SizeThreshold
    THEN DecimalStr(Quotient(size_int, DefaultScale, 0))
    ELSE IntDigits(size_int)

get_tick_size(symbol) == Get(product_tick_sizes, symbol, 1)

\* normalize_price
normalize_price(symbol, price_int) ==
    LET tick_size == get_tick_size(symbol)
        remainder == price_int % tick_size
    IN IF tick_size = 1 THEN price_int
       ELSE IF remainder = 0 THEN price_int
       ELSE IF remainder >= tick_size \div 2
       THEN price_int + (tick_size - remainder)
       ELSE price_int - remainder

----------------------------------------------------------------------------
(* OrderBook (models/orderbook.py).                                        *)

\* OrderBook(symbol=symbol): the dataclass defaults.
NewOrderBook(symbol) ==
    [symbol |-> symbol, bids |-> <<>>, asks |-> <<>>, timestamp |-> 0,
     sequence_no |-> 0, raw_bids |-> <<>>, raw_asks |-> <<>>]

\* A JSON number under "timestamp" is the integer itself; a JSON string
\* is carried, as its characters, under "timestamp_str".
\* int(data.get("timestamp", 0)) raises on a string that is no integer
\* literal.
TimestampRaises(data) ==
    IF Has(data, "timestamp_str") THEN ~IsIntLiteral(data["timestamp_str"])
    ELSE FALSE

\* int(data.get("timestamp", 0))
MessageTimestamp(data) ==
    IF Has(data, "timestamp_str") THEN DigitsValue(data["timestamp_str"], 0)
    ELSE Get(data, "timestamp", 0)

\* Mutant: only sequence_no is read.
MessageSeq_sequence_no_only(data) == Get(data, "sequence_no", 0)

\* data.get("sequence_no") or data.get("last_sequence_no", 0)
MessageSeq(data) ==
    IF Has(data, "sequence_no") /\ data["sequence_no"] # 0
    THEN data["sequence_no"]
    ELSE Get(data, "last_sequence_no", 0)

\* data.get("buy") or data.get("bids", [])
BuyLevels(data) ==
    IF Has(data, "buy") /\ data["buy"] # <<>> THEN data["buy"]
    ELSE Get(data, "bids", <<>>)

\* data.get("sell") or data.get("asks", [])
SellLevels(data) ==
    IF Has(data, "sell") /\ data["sell"] # <<>> THEN data["sell"]
    ELSE Get(data, "asks", <<>>)

\* One entry of a level array: a [price, size] list or a
\* {"limit_price", "size"} object; either way two strings come out.
LevelPriceStr(level) ==
    IF level.form = "list" THEN level.item[1] ELSE level.limit_price
LevelSizeStr(level) ==
    IF level.form = "list" THEN level.item[2] ELSE level.size

LevelParses(level) ==
    PriceParses(LevelPriceStr(level)) /\ SizeParses(LevelSizeStr(level))

RemoveAt(seq, i) ==
    [j \in 1..(Len(seq) - 1) |-> IF j < i THEN seq[j] ELSE seq[j + 1]]

\* list.sort(key=..., reverse=...): a stable sort.  SortOrder(keys, n,
\* reverse) is the sequence of the positions 1..n in sorted order; equal
\* keys keep their order (with reverse too, as in Python).
KeyBefore(keys, i, j, reverse) ==
    IF reverse THEN DecLess(keys[j], keys[i]) ELSE DecLess(keys[i], keys[j])

RECURSIVE SortOrder(_, _, _)
SortOrder(keys, n, reverse) ==
    IF n = 0 THEN <<>>
    ELSE LET prev == SortOrder(keys, n - 1, reverse)
             \* position n goes behind every position it is not before
             c == Cardinality({k \in 1..(n - 1) :
                                ~KeyBefore(keys, n, prev[k], reverse)})
         IN SubSeq(prev, 1, c) \o <<n>> \o SubSeq(prev, c + 1, n - 1)

SortBy(seq, keys, reverse) ==
    LET order == SortOrder(keys, Len(seq), reverse)
    IN [k \in 1..Len(seq) |-> seq[order[k]]]

IntKey(level) == [coef |-> level[1], exp |-> 0]
RawKey(level) == Float(level[1])

\* levels.sort(reverse=reverse, key=lambda x: x[0])
SortLevels(levels, reverse) ==
    SortBy(levels, [k \in 1..Len(levels) |-> IntKey(levels[k])], reverse)

\* levels.sort(reverse=reverse, key=lambda x: float(x[0]))
SortRawLevels(levels, reverse) ==
    SortBy(levels, [k \in 1..Len(levels) |-> RawKey(levels[k])], reverse)

\* Mutant: size 0 is stored on the level instead of removing it.
update_level_keeps_zero(levels, price, size, reverse) ==
    LET found == {i \in 1..Len(levels) : levels[i][1] = price}
    IN IF found # {}
       THEN LET i == CHOOSE k \in found : \A j \in found : k <= j
            IN [levels EXCEPT ![i] = <<price, size>>]
       ELSE IF size > 0
            THEN SortLevels(Append(levels, <<price, size>>), reverse)
            ELSE levels

\* Mutant: a new level is appended and the list left unsorted.
update_level_no_sort(levels, price, size, reverse) ==
    LET found == {i \in 1..Len(levels) : levels[i][1] = price}
    IN IF found # {}
       THEN LET i == CHOOSE k \in found : \A j \in found : k <= j
            IN IF size = 0 THEN RemoveAt(levels, i)
               ELSE [levels EXCEPT ![i] = <<price, size>>]
       ELSE IF size > 0
            THEN Append(levels, <<price, size>>)
            ELSE levels

\* _update_level: the first level at the price is removed (size 0) or
\* replaced; a price not present is appended and the list sorted if size > 0.
update_level(levels, price, size, reverse) ==
    LET found == {i \in 1..Len(levels) : levels[i][1] = price}
    IN IF found # {}
       THEN LET i == CHOOSE k \in found : \A j \in found : k <= j
            IN IF size = 0 THEN RemoveAt(levels, i)
               ELSE [levels EXCEPT ![i] = <<price, size>>]
       ELSE IF size > 0
            THEN SortLevels(Append(levels, <<price, size>>), reverse)
            ELSE levels

\* _update_raw_level: the same on the strings, compared as floats.
update_raw_level(levels, price_str, size_str, reverse) ==
    LET found == {i \in 1..Len(levels) :
                    FloatEq(Float(levels[i][1]), Float(price_str))}
    IN IF found # {}
       THEN LET i == CHOOSE k \in found : \A j \in found : k <= j
            IN IF FloatIsZero(Float(size_str)) THEN RemoveAt(levels, i)
               ELSE [levels EXCEPT ![i] = <<price_str, size_str>>]
       ELSE IF FloatIsPositive(Float(size_str))
            THEN SortRawLevels(Append(levels, <<price_str, size_str>>), reverse)
            ELSE levels

RECURSIVE AppendLevels(_, _, _, _)
\* The loop of update_from_snapshot over one side: each level is converted
\* and appended to both lists; a level that does not parse raises there.
AppendLevels(symbol, levels, ints, raws) ==
    IF levels = <<>> THEN [ints |-> ints, raws |-> raws, raised |-> FALSE]
    ELSE IF ~LevelParses(Head(levels))
    THEN [ints |-> ints, raws |-> raws, raised |-> TRUE]
    ELSE LET price_str == LevelPriceStr(Head(levels))
             size_str == LevelSizeStr(Head(levels))
         IN AppendLevels(symbol, Tail(levels),
                Append(ints, <<price_to_integer(symbol, price_str),
                               size_to_integer(size_str)>>),
                Append(raws, <<price_str, size_str>>))

\* Mutant: the lists are not reset before the snapshot's levels are added.
update_from_snapshot_keep_levels(book, data) ==
    LET b0 == [book EXCEPT !.symbol = data["symbol"],
                           !.timestamp = MessageTimestamp(data),
                           !.sequence_no = MessageSeq(data)]
        buy == AppendLevels(b0.symbol, BuyLevels(data), book.bids, book.raw_bids)
        b1 == [b0 EXCEPT !.bids = buy.ints, !.raw_bids = buy.raws]
        sell == AppendLevels(b0.symbol, SellLevels(data), book.asks, book.raw_asks)
        b2 == [b1 EXCEPT !.asks = sell.ints, !.raw_asks = sell.raws]
    IN IF buy.raised THEN [book |-> b1, raised |-> TRUE]
       ELSE IF sell.raised THEN [book |-> b2, raised |-> TRUE]
       ELSE [book |-> [b2 EXCEPT
                         !.bids = SortLevels(b2.bids, TRUE),
                         !.asks = SortLevels(b2.asks, FALSE),
                         !.raw_bids = SortRawLevels(b2.raw_bids, TRUE),
                         !.raw_asks = SortRawLevels(b2.raw_asks, FALSE)],
             raised |-> FALSE]

\* update_from_snapshot: [book, raised].  The fields are assigned in the
\* order of the code, so a raise leaves what was assigned before it.
update_from_snapshot(book, data) ==
    LET named == [book EXCEPT !.symbol = data["symbol"]]
        b0 == [named EXCEPT !.timestamp = MessageTimestamp(data),
                            !.sequence_no = MessageSeq(data)]
        buy == AppendLevels(b0.symbol, BuyLevels(data), <<>>, <<>>)
        b1 == [b0 EXCEPT !.bids = buy.ints, !.raw_bids = buy.raws]
        sell == AppendLevels(b0.symbol, SellLevels(data), <<>>, <<>>)
        b2 == [b1 EXCEPT !.asks = sell.ints, !.raw_asks = sell.raws]
    IN IF TimestampRaises(data) THEN [book |-> named, raised |-> TRUE]
       ELSE IF buy.raised THEN [book |-> b1, raised |-> TRUE]
       ELSE IF sell.raised THEN [book |-> b2, raised |-> TRUE]
       ELSE [book |-> [b2 EXCEPT
                         !.bids = SortLevels(b2.bids, TRUE),
                         !.asks = SortLevels(b2.asks, FALSE),
                         !.raw_bids = SortRawLevels(b2.raw_bids, TRUE),
                         !.raw_asks = SortRawLevels(b2.raw_asks, FALSE)],
             raised |-> FALSE]

RECURSIVE ApplyLevels(_, _, _, _, _)
\* The loop of apply_update over one side: each level is converted, then
\* upserted into the integer list and into the raw list.
ApplyLevels(symbol, levels, ints, raws, reverse) ==
    IF levels = <<>> THEN [ints |-> ints, raws |-> raws, raised |-> FALSE]
    ELSE IF ~LevelParses(Head(levels))
    THEN [ints |-> ints, raws |-> raws, raised |-> TRUE]
    ELSE LET price_str == LevelPriceStr(Head(levels))
             size_str == LevelSizeStr(Head(levels))
         IN ApplyLevels(symbol, Tail(levels),
                update_level(ints, price_to_integer(symbol, price_str),
                             size_to_integer(size_str), reverse),
                update_raw_level(raws, price_str, size_str, reverse),
                reverse)

\* Mutant: only a sequence number that does not advance is a mismatch.
SequenceMismatch_forward_ok(book, new_seq) ==
    book.sequence_no > 0 /\ new_seq < book.sequence_no + 1

\* Mutant: the next message is expected to repeat the current number.
SequenceMismatch_off_by_one(book, new_seq) ==
    book.sequence_no > 0 /\ new_seq # book.sequence_no

\* The sequence check of apply_update.
SequenceMismatch(book, new_seq) ==
    book.sequence_no > 0 /\ new_seq # book.sequence_no + 1

\* apply_update: [book, result], result "ok" (True), "gap" (False) or
\* "raise".  sequence_no and timestamp are assigned before the levels,
\* sequence_no before the timestamp is converted.
apply_update(book, data) ==
    LET new_seq == MessageSeq(data)
        b0 == [book EXCEPT !.sequence_no = new_seq,
                           !.timestamp = MessageTimestamp(data)]
        buy == ApplyLevels(b0.symbol, BuyLevels(data), b0.bids, b0.raw_bids, TRUE)
        b1 == [b0 EXCEPT !.bids = buy.ints, !.raw_bids = buy.raws]
        sell == ApplyLevels(b0.symbol, SellLevels(data), b1.asks, b1.raw_asks, FALSE)
        b2 == [b1 EXCEPT !.asks = sell.ints, !.raw_asks = sell.raws]
    IN IF SequenceMismatch(book, new_seq) THEN [book |-> book, result |-> "gap"]
       ELSE IF TimestampRaises(data)
       THEN [book |-> [book EXCEPT !.sequence_no = new_seq], result |-> "raise"]
       ELSE IF buy.raised THEN [book |-> b1, result |-> "raise"]
       ELSE IF sell.raised THEN [book |-> b2, result |-> "raise"]
       ELSE [book |-> b2, result |-> "ok"]

\* str.encode(): the byte of each character the checksum text can hold.
Ord(c) ==
    CASE c \in DigitChars -> 48 + DigitValue(c)
      [] c = "." -> 46
      [] c = ":" -> 58
      [] c = "," -> 44
      [] c = "|" -> 124

RECURSIVE Xor(_, _)
\* Bitwise exclusive or of two naturals.
Xor(a, b) ==
    IF a = 0 THEN b
    ELSE IF b = 0 THEN a
    ELSE 2 * Xor(a \div 2, b \div 2) + ((a + b) % 2)

\* A 32-bit word is <<high 16 bits, low 16 bits>>.
Xor32(x, y) == <<Xor(x[1], y[1]), Xor(x[2], y[2])>>
ShiftRight1(x) == <<x[1] \div 2, (x[1] % 2) * 32768 + x[2] \div 2>>
ShiftRight8(x) == <<x[1] \div 256, (x[1] % 256) * 256 + x[2] \div 256>>

\* The reflected CRC-32 polynomial 0xEDB88320 of zlib.
Crc32Poly == <<60856, 33568>>

RECURSIVE Crc32Bits(_, _)
\* k rounds of: shift right, exclusive-or the polynomial if a one fell out.
Crc32Bits(x, k) ==
    IF k = 0 THEN x
    ELSE Crc32Bits(IF x[2] % 2 = 1 THEN Xor32(ShiftRight1(x), Crc32Poly)
                   ELSE ShiftRight1(x), k - 1)

\* zlib's table: entry n is eight rounds on the byte n.
Crc32Table == [n \in 0..255 |-> Crc32Bits(<<0, n>>, 8)]

\* One table step: the byte enters the low end of the register.
Crc32Step(crc, byte) ==
    Xor32(ShiftRight8(crc), Crc32Table[Xor(crc[2] % 256, byte)])

RECURSIVE Crc32Update(_, _, _, _)
\* The table step over bytes i..j of the text in order.  The range is
\* halved and the register after the first half is a value (an element of
\* a singleton) before the second half starts, which keeps the evaluation
\* shallow.
Crc32Update(crc, text, i, j) ==
    IF i > j THEN crc
    ELSE IF i = j THEN Crc32Step(crc, Ord(text[i]))
    ELSE CHOOSE r \in {Crc32Update(mid, text, (i + j) \div 2 + 1, j) :
                         mid \in {Crc32Update(crc, text, i, (i + j) \div 2)}} : TRUE

\* zlib.crc32(text.encode()) & 0xFFFFFFFF: the register starts all ones and
\* is complemented at the end; the word is unsigned by construction.
Crc32(text) ==
    LET r == Crc32Update(<<65535, 65535>>, text, 1, Len(text))
    IN <<65535 - r[1], 65535 - r[2]>>

\* levels[:n]
Take(levels, n) == SubSeq(levels, 1, IF Len(levels) < n THEN Len(levels) ELSE n)

RECURSIVE Join(_, _)
\* sep.join(parts)
Join(parts, sep) ==
    IF parts = <<>> THEN <<>>
    ELSE IF Len(parts) = 1 THEN parts[1]
    ELSE parts[1] \o sep \o Join(Tail(parts), sep)

\* [f"{price}:{size}" for price, size in levels]
LevelParts(levels) ==
    [i \in 1..Len(levels) |-> levels[i][1] \o <<":">> \o levels[i][2]]

\* Mutant: one level more than the ten is taken from each side.
compute_checksum_one_more(book) ==
    LET top_raw_asks == Take(book.raw_asks, ChecksumLevels + 1)
        top_raw_bids == Take(book.raw_bids, ChecksumLevels + 1)
        checksum_string == Join(LevelParts(top_raw_asks), <<",">>) \o <<"|">>
                           \o Join(LevelParts(top_raw_bids), <<",">>)
    IN Crc32(checksum_string)

\* compute_checksum: CRC-32 of "asks|bids" over the first ten raw levels
\* of each side.
compute_checksum(book) ==
    LET top_raw_asks == Take(book.raw_asks, ChecksumLevels)
        top_raw_bids == Take(book.raw_bids, ChecksumLevels)
        checksum_string == Join(LevelParts(top_raw_asks), <<",">>) \o <<"|">>
                           \o Join(LevelParts(top_raw_bids), <<",">>)
    IN Crc32(checksum_string)

\* Mutant: the call consumes the levels it reads.
compute_checksum_effect_consumes(book) ==
    [book EXCEPT
        !.raw_asks = IF Len(@) > ChecksumLevels
                     THEN SubSeq(@, ChecksumLevels + 1, Len(@)) ELSE <<>>,
        !.raw_bids = IF Len(@) > ChecksumLevels
                     THEN SubSeq(@, ChecksumLevels + 1, Len(@)) ELSE <<>>]

\* The book after compute_checksum returns: the method slices and joins
\* into locals and assigns no field.
compute_checksum_effect(book) == book

\* validate_checksum: computed == checksum.
validate_checksum(book, checksum) == compute_checksum(book) = checksum

\* The book after validate_checksum returns.
validate_checksum_effect(book) == compute_checksum_effect(book)

get_best_bid(book) == IF book.bids # <<>> THEN book.bids[1] ELSE <<0, 0>>
get_best_ask(book) == IF book.asks # <<>> THEN book.asks[1] ELSE <<0, 0>>

\* Mutant: the mid price is rounded up.
get_mid_price_round_up(book) ==
    IF book.bids = <<>> \/ book.asks = <<>> THEN 0
    ELSE (book.bids[1][1] + book.asks[1][1] + 1) \div 2

\* get_mid_price: 0 with an empty side, else the floor of the mean.
get_mid_price(book) ==
    IF book.bids = <<>> \/ book.asks = <<>> THEN 0
    ELSE (book.bids[1][1] + book.asks[1][1]) \div 2

\* Mutant: the spread is taken without looking at the bids.
get_spread_no_bid_check(book) ==
    IF book.asks = <<>> THEN 0
    ELSE book.asks[1][1] - get_best_bid(book)[1]

\* get_spread: 0 with an empty side, else best ask minus best bid.
get_spread(book) ==
    IF book.bids = <<>> \/ book.asks = <<>> THEN 0
    ELSE book.asks[1][1] - book.bids[1][1]

----------------------------------------------------------------------------
(* MarketDataManager (core/market_data.py) and the transport requests.     *)

NoTask == "none"

\* f"{channel_type}.{symbol}"
Channel(symbol) == <<ORDERBOOK_CHANNEL, symbol>>

\* action if action else data.get("type")
MsgType(data) ==
    IF Has(data, "action") /\ data["action"] # "" THEN data["action"]
    ELSE Get(data, "type", "none")

\* not data.get("symbol")
MissingSymbol(data) == IF Has(data, "symbol") THEN data["symbol"] = "" ELSE TRUE

\* dict assignment d[k] = v
Put(d, k, v) == [x \in DOMAIN d \cup {k} |-> IF x = k THEN v ELSE d[x]]
\* del d[k]
Del(d, k) == [x \in DOMAIN d \ {k} |-> d[x]]

\* Mutant: no message is classified as an error.
IsErrorMessage_never(data) == FALSE

\* if msg_type == "error"
IsErrorMessage(data) == MsgType(data) = "error"

\* The handler returns before taking the lock.
ReturnsBeforeLock(data) ==
    IF MissingSymbol(data) THEN TRUE ELSE IsErrorMessage(data)

\* orderbook = self._orderbooks.get(symbol), created when there is none.
BookFor(symbol) ==
    IF Has(orderbooks, symbol) THEN orderbooks[symbol] ELSE NewOrderBook(symbol)

\* Mutant: a symbol without a flag counts as synced.
IsPending_default_false(symbol) == Get(pending_snapshots, symbol, FALSE)

\* self._pending_snapshots.get(symbol, True)
IsPending(symbol) == Get(pending_snapshots, symbol, TRUE)

\* Mutant: the handler does not take the lock.
LockFree_always == TRUE

\* The lock is free: async with self._lock is entered at once.  It is
\* held across a suspension only by a handler run in gap recovery.
LockFree == recovering = NoTask

\* checksum = data.get("cs"); if checksum: ...  (0 and None are skipped)
CsGiven(data) == IF Has(data, "cs") THEN data["cs"] # <<0, 0>> ELSE FALSE

\* Mutant: only the first callback is notified.
notify_orderbook_callbacks_first_only(symbol, orderbook) ==
    [i \in 1..(IF orderbook_callbacks = <<>> THEN 0 ELSE 1) |->
        <<orderbook_callbacks[i], symbol, orderbook>>]

\* _notify_orderbook_callbacks: one task per entry of the callback list,
\* each given the symbol and the book.
notify_orderbook_callbacks(symbol, orderbook) ==
    [i \in 1..Len(orderbook_callbacks) |->
        <<orderbook_callbacks[i], symbol, orderbook>>]

\* Mutant: a checksum mismatch asks for a new snapshot.
AfterApply_recover_on_mismatch(data, books, pending, kind) ==
    LET symbol == data["symbol"]
        book == books[symbol]
        mismatch == IF CsGiven(data) THEN compute_checksum(book) # data["cs"]
                    ELSE FALSE
    IN [orderbooks |-> books,
        pending |-> IF mismatch THEN Put(pending, symbol, TRUE) ELSE pending,
        kind |-> kind, warned |-> mismatch,
        notified |-> notify_orderbook_callbacks(symbol, book)]

\* The end of a run that applied its message: the checksum, when the
\* message gives one, is computed and a mismatch logged; then, the lock
\* released, the callbacks are notified.
AfterApply(data, books, pending, kind) ==
    LET symbol == data["symbol"]
        book == IF CsGiven(data) THEN compute_checksum_effect(books[symbol])
                ELSE books[symbol]
        mismatch == IF CsGiven(data) THEN compute_checksum(book) # data["cs"]
                    ELSE FALSE
    IN [orderbooks |-> Put(books, symbol, book), pending |-> pending,
        kind |-> kind, warned |-> mismatch,
        notified |-> notify_orderbook_callbacks(symbol, book)]

\* Mutant: the callbacks are notified on every way out of the handler.
Quiet_notifies ==
    [warned |-> FALSE,
     notified |-> [i \in 1..Len(orderbook_callbacks) |->
                     <<orderbook_callbacks[i], "", NewOrderBook("")>>]]

\* A run that returns or raises before the checksum: nothing is logged
\* about the checksum and nobody is notified.
Quiet == [warned |-> FALSE, notified |-> <<>>]

\* _handle_orderbook_message up to its first suspension: the values the
\* manager's fields take and how the run ends.  kind is
\*   "no_symbol", "error", "unknown", "skipped": the early returns;
\*   "snapshot", "applied": the message was applied;
\*   "gap": apply_update returned False, recovery begins;
\*   "raised": an exception reached the handler's except clause.
Handled(data) ==
    LET symbol == data["symbol"]
        book == BookFor(symbol)
        books == Put(orderbooks, symbol, book)
        keep == [orderbooks |-> orderbooks, pending |-> pending_snapshots]
    IN IF MissingSymbol(data) THEN keep @@ [kind |-> "no_symbol"] @@ Quiet
       ELSE IF IsErrorMessage(data) THEN keep @@ [kind |-> "error"] @@ Quiet
       ELSE IF MsgType(data) \in {"l2_orderbook", "snapshot"}
       THEN LET r == update_from_snapshot(book, data)
            IN IF r.raised
               THEN [orderbooks |-> Put(orderbooks, symbol, r.book),
                     pending |-> pending_snapshots, kind |-> "raised"] @@ Quiet
               ELSE AfterApply(data, Put(orderbooks, symbol, r.book),
                               Put(pending_snapshots, symbol, FALSE), "snapshot")
       ELSE IF MsgType(data) = "update"
       THEN IF IsPending(symbol)
            THEN [orderbooks |-> books, pending |-> pending_snapshots,
                  kind |-> "skipped"] @@ Quiet
            ELSE LET r == apply_update(book, data)
                 IN IF r.result = "gap"
                    THEN [orderbooks |-> books,
                          pending |-> Put(pending_snapshots, symbol, TRUE),
                          kind |-> "gap"] @@ Quiet
                    ELSE IF r.result = "ok"
                    THEN AfterApply(data, Put(orderbooks, symbol, r.book),
                                    pending_snapshots, "applied")
                    ELSE [orderbooks |-> Put(orderbooks, symbol, r.book),
                          pending |-> pending_snapshots, kind |-> "raised"] @@ Quiet
       ELSE [orderbooks |-> books, pending |-> pending_snapshots,
             kind |-> "unknown"] @@ Quiet

\* History: no snapshot with a positive sequence number was applied to the
\* symbol's book, or the run since it was broken by an exception or by the
\* book being discarded.  The count stops at MaxSeq.
NoRun == [snap |-> 0, n |-> -1]

RunAfter(data, kind) ==
    IF kind = "snapshot"
    THEN [run EXCEPT ![data["symbol"]] =
            IF MessageSeq(data) > 0 THEN [snap |-> MessageSeq(data), n |-> 0]
            ELSE NoRun]
    ELSE IF kind = "applied" /\ run[data["symbol"]].n >= 0
    THEN [run EXCEPT ![data["symbol"]].n = IF @ < MaxSeq THEN @ + 1 ELSE @]
    ELSE IF kind = "raised"
    THEN [run EXCEPT ![data["symbol"]] = NoRun]
    ELSE run

\* Mutant: the lock is taken with acquire() and released on the normal
\* path only, so a run that raised keeps it.
HandlerRun_raise_keeps_lock(data) ==
    \E h \in {Handled(data)} :
       /\ IF ReturnsBeforeLock(data) THEN TRUE ELSE LockFree
       /\ orderbooks' = h.orderbooks
       /\ notified' = h.notified
       /\ checksum_warned' = h.warned
       /\ pending_snapshots' = h.pending
       /\ outcome' = h.kind
       /\ run' = RunAfter(data, h.kind)
       /\ IF h.kind \in {"gap", "raised"}
          THEN /\ recovering' = data["symbol"]
               /\ sent' = <<<<"unsubscribe", Channel(data["symbol"])>>>>
               /\ subscriptions' = subscriptions \ {Channel(data["symbol"])}
          ELSE /\ sent' = IF ReturnsBeforeLock(data) THEN sent ELSE <<>>
               /\ UNCHANGED <<recovering, subscriptions>>
       /\ UNCHANGED <<product_scales, unsub_waiting, orderbook_callbacks>>

\* One run of _handle_orderbook_message.  A run that needs the lock waits
\* while a recovery holds it and then runs on the state it finds; a gap
\* leaves the run suspended in asyncio.sleep with the lock held, the
\* unsubscribe request issued.
HandlerRun(data) ==
    \E h \in {Handled(data)} :
       /\ IF ReturnsBeforeLock(data) THEN TRUE ELSE LockFree
       /\ orderbooks' = h.orderbooks
       /\ notified' = h.notified
       /\ checksum_warned' = h.warned
       /\ pending_snapshots' = h.pending
       /\ outcome' = h.kind
       /\ run' = RunAfter(data, h.kind)
       /\ IF h.kind = "gap"
          THEN /\ recovering' = data["symbol"]
               /\ sent' = <<<<"unsubscribe", Channel(data["symbol"])>>>>
               /\ subscriptions' = subscriptions \ {Channel(data["symbol"])}
          ELSE /\ sent' = IF ReturnsBeforeLock(data) THEN sent ELSE <<>>
               /\ UNCHANGED <<recovering, subscriptions>>
       /\ UNCHANGED <<product_scales, unsub_waiting, orderbook_callbacks>>

\* The handler called with a message, as the tests call it.
HandleOrderbookMessage(data) ==
    /\ HandlerRun(data)
    /\ UNCHANGED otherVars

\* Mutant: the recovery returns without resubscribing.
RecoveryResume_no_subscribe ==
    /\ recovering # NoTask
    /\ recovering' = NoTask
    /\ outcome' = "resubscribed"
    /\ UNCHANGED <<otherVars, product_scales,
                   orderbooks, pending_snapshots, unsub_waiting,
                   run, sent, subscriptions, orderbook_callbacks, notified,
                   checksum_warned>>

\* The suspended run resumes after the sleep: the subscribe request, then
\* the return releases the lock.
RecoveryResume ==
    /\ recovering # NoTask
    /\ sent' = Append(sent, <<"subscribe", Channel(recovering)>>)
    /\ subscriptions' = subscriptions \cup {Channel(recovering)}
    /\ recovering' = NoTask
    /\ outcome' = "resubscribed"
    /\ UNCHANGED <<otherVars, product_scales,
                   orderbooks, pending_snapshots, unsub_waiting,
                   run, orderbook_callbacks, notified, checksum_warned>>

\* subscribe_orderbook: a book and a pending flag for a new symbol, then
\* the subscribe request.  It takes no lock.
SubscribeOrderbook(symbol) ==
    /\ IF Has(orderbooks, symbol)
       THEN UNCHANGED <<orderbooks, pending_snapshots>>
       ELSE /\ orderbooks' = Put(orderbooks, symbol, NewOrderBook(symbol))
            /\ pending_snapshots' = Put(pending_snapshots, symbol, TRUE)
    /\ subscriptions' = subscriptions \cup {Channel(symbol)}
    /\ UNCHANGED <<otherVars, product_scales,
                   recovering, unsub_waiting, sent, outcome, run,
                   orderbook_callbacks, notified, checksum_warned>>

\* unsubscribe_orderbook: the unsubscribe request, then, under the lock,
\* the book and the flag are deleted.  While a recovery holds the lock the
\* call waits for it.
UnsubscribeOrderbook(symbol) ==
    /\ symbol \notin unsub_waiting
    /\ subscriptions' = subscriptions \ {Channel(symbol)}
    /\ IF recovering = NoTask
       THEN /\ orderbooks' = Del(orderbooks, symbol)
            /\ pending_snapshots' = Del(pending_snapshots, symbol)
            /\ run' = [run EXCEPT ![symbol] = NoRun]
            /\ UNCHANGED unsub_waiting
       ELSE /\ unsub_waiting' = unsub_waiting \cup {symbol}
            /\ UNCHANGED <<orderbooks, pending_snapshots, run>>
    /\ UNCHANGED <<otherVars, product_scales, recovering, sent, outcome,
                   orderbook_callbacks, notified, checksum_warned>>

UnsubscribeFinish(symbol) ==
    /\ symbol \in unsub_waiting
    /\ recovering = NoTask
    /\ unsub_waiting' = unsub_waiting \ {symbol}
    /\ orderbooks' = Del(orderbooks, symbol)
    /\ pending_snapshots' = Del(pending_snapshots, symbol)
    /\ run' = [run EXCEPT ![symbol] = NoRun]
    /\ UNCHANGED <<otherVars, product_scales,
                   subscriptions, recovering, sent, outcome,
                   orderbook_callbacks, notified, checksum_warned>>

\* cleanup: under the lock, the books, the trade lists and the callback
\* list are cleared; the flags are not.
Cleanup ==
    /\ recovering = NoTask
    /\ orderbooks' = <<>>
    /\ trades' = <<>>
    /\ trade_log' = <<>>
    /\ orderbook_callbacks' = <<>>
    /\ run' = [s \in Symbols |-> NoRun]
    /\ UNCHANGED <<steadyVars, product_scales,
                   pending_snapshots, subscriptions,
                   recovering, unsub_waiting, sent, outcome, notified,
                   checksum_warned>>

\* add_orderbook_callback: the callback is appended; one added twice is
\* listed twice.
AddOrderbookCallback(callback) ==
    /\ Len(orderbook_callbacks) < MaxCallbacks
    /\ orderbook_callbacks' = Append(orderbook_callbacks, callback)
    /\ UNCHANGED <<otherVars, product_scales,
                   orderbooks, pending_snapshots, subscriptions,
                   recovering, unsub_waiting, sent, outcome, run, notified,
                   checksum_warned>>

----------------------------------------------------------------------------
(* The messages the transport delivers.                                    *)

P_1_0 == <<"1", ".", "0">>
P_1_005 == <<"1", ".", "0", "0", "5">>
P_2_0 == <<"2", ".", "0">>
P_2_01 == <<"2", ".", "0", "1">>
P_3_0 == <<"3", ".", "0">>
P_bad == <<"x">>
S_0 == <<"0">>
S_5 == <<"5">>
S_7 == <<"7">>
S_tiny == <<"0", ".", "0", "0", "0", "0", "0", "0", "0", "0", "1">>

ListLevel(price, size) == [form |-> "list", item |-> <<price, size>>]
ObjectLevel(price, size) == [form |-> "object", limit_price |-> price, size |-> size]

\* Sequences of at most n elements of S.
SeqUpTo(S, n) == UNION {[1..k -> S] : k \in 0..n}

Timestamps == {1, 2}

\* A message of the l2_updates channel: action, sequence_no, [price, size]
\* arrays under bids and asks.
L2Updates(action, symbol, seq, ts, bids, asks) ==
    [type |-> "l2_updates", action |-> action, symbol |-> symbol,
     timestamp |-> ts, sequence_no |-> seq, bids |-> bids, asks |-> asks]

\* A message of the l2_orderbook channel: last_sequence_no, objects under
\* buy and sell.
L2Orderbook(symbol, seq, ts, buy, sell) ==
    [type |-> "l2_orderbook", symbol |-> symbol, timestamp |-> ts,
     last_sequence_no |-> seq, buy |-> buy, sell |-> sell]

\* Messages that are no book data: an error, an unknown type, no symbol.
OtherMessages ==
    {[type |-> "error", symbol |-> s, message |-> "m"] : s \in Symbols}
    \cup {[type |-> "v2/ticker", symbol |-> s] : s \in Symbols}
    \cup {[type |-> "l2_updates", action |-> "update"]}

\* The feed of the sequencing specification: every sequence number, few
\* price levels.
SeqBidPairs == ({P_1_0, P_2_0} \X {S_5}) \cup {<<P_1_0, S_0>>}
SeqAskPairs == {P_3_0} \X {S_5}

SeqMessages ==
    {L2Updates(a, s, n, ts,
               [i \in DOMAIN b |-> ListLevel(b[i][1], b[i][2])],
               [i \in DOMAIN k |-> ListLevel(k[i][1], k[i][2])]) :
        a \in {"snapshot", "update"}, s \in Symbols, n \in 0..MaxSeq,
        ts \in Timestamps, b \in SeqUpTo(SeqBidPairs, 1),
        k \in SeqUpTo(SeqAskPairs, 1)}
    \cup
    {L2Orderbook(s, n, ts,
                 [i \in DOMAIN b |-> ObjectLevel(b[i][1], b[i][2])],
                 [i \in DOMAIN k |-> ObjectLevel(k[i][1], k[i][2])]) :
        s \in Symbols, n \in 0..MaxSeq, ts \in Timestamps,
        b \in SeqUpTo(SeqBidPairs, 1), k \in SeqUpTo(SeqAskPairs, 1)}
    \cup OtherMessages

----------------------------------------------------------------------------
(* Specifications.                                                         *)

\* The manager as constructed; the converter after the engine registered
\* the products (engine.initialize registers before anything subscribes).
RECURSIVE RegisterAll(_, _)
RegisterAll(scales, symbols) ==
    IF symbols = {} THEN scales
    ELSE LET s == CHOOSE x \in symbols : TRUE
         IN RegisterAll(register_product(scales, s, TickSize), symbols \ {s})

RECURSIVE RegisterAllTicks(_, _)
RegisterAllTicks(ticks, symbols) ==
    IF symbols = {} THEN ticks
    ELSE LET s == CHOOSE x \in symbols : TRUE
         IN RegisterAllTicks(register_product_tick(ticks, s, TickSize),
                             symbols \ {s})

\* No conversion was called yet.
NoCall == [op |-> "none"]

\* The message types WebSocketClient.__init__ gives an empty handler list.
MessageTypes ==
    {"snapshot", "update", "l2_orderbook", "all_trades",
     "all_trades_snapshot", "ticker", "subscriptions", "heartbeat"}

\* _handle_message was not called yet.
NoDispatch == [tasks |-> <<>>, reply |-> "none"]

\* WebSocketClient.__init__: not running, no socket, no task.
NoConnection ==
    [running |-> FALSE, ws |-> "none", reconnect_attempts |-> 0,
     subscriptions |-> {}, requested |-> {},
     receive_task |-> "none", watchdog_task |-> "none"]

\* The transport as constructed.
InitTransport ==
    /\ channel_handlers = <<>>
    /\ message_handlers = [t \in MessageTypes |-> <<>>]
    /\ dispatched = NoDispatch
    /\ ready_tasks = <<>>
    /\ connection = NoConnection

\* The manager as constructed.
InitManager ==
    /\ orderbooks = <<>>
    /\ pending_snapshots = <<>>
    /\ subscriptions = {}
    /\ recovering = NoTask
    /\ unsub_waiting = {}
    /\ sent = <<>>
    /\ outcome = "none"
    /\ run = [s \in Symbols |-> NoRun]
    /\ orderbook_callbacks = <<>>
    /\ notified = <<>>
    /\ checksum_warned = FALSE
    /\ trades = <<>>
    /\ trade_log = <<>>
    /\ views = {}

\* No cancel_order returned yet.
NoCancel == [client_order_id |-> "none", returned |-> FALSE]

\* The paper order manager as constructed.
InitPaper ==
    /\ orders = <<>>
    /\ order_counter = 0
    /\ paper_tasks = <<>>
    /\ cancel_result = NoCancel

Init ==
    /\ product_tick_sizes = RegisterAllTicks(<<>>, Symbols)
    /\ converted = NoCall
    /\ product_scales = RegisterAll(<<>>, Symbols)
    /\ InitManager
    /\ InitTransport
    /\ InitPaper

Next ==
    \/ \E data \in SeqMessages : HandleOrderbookMessage(data)
    \/ RecoveryResume
    \/ \E symbol \in Symbols : SubscribeOrderbook(symbol)
    \/ \E symbol \in Symbols : UnsubscribeOrderbook(symbol)
    \/ \E symbol \in Symbols : UnsubscribeFinish(symbol)
    \/ Cleanup

Spec == Init /\ [][Next]_vars

\* The feed of the ladder specification: one snapshot number, the deltas
\* after it, and the price and size forms: a price between ticks, a size
\* below the size scale, a removal, a field that is no number; a snapshot
\* may list a price twice.
LadderBidPairs == {P_1_0, P_1_005, P_2_0} \X {S_5, S_0, S_tiny}
SnapshotBidPairs == {P_1_0, P_1_005} \X {S_5}
LadderAskPairs == {<<P_3_0, S_5>>}
MalformedPairs == {<<P_bad, S_5>>}

LadderMessages ==
    {L2Updates("snapshot", s, 1, 1,
               [i \in DOMAIN b |-> ListLevel(b[i][1], b[i][2])],
               [i \in DOMAIN k |-> ListLevel(k[i][1], k[i][2])]) :
        s \in Symbols,
        b \in SeqUpTo(SnapshotBidPairs \cup MalformedPairs, MaxSnapLevels),
        k \in SeqUpTo(LadderAskPairs \cup MalformedPairs, 1)}
    \cup
    {L2Updates("update", s, n, 1,
               [i \in DOMAIN b |-> ListLevel(b[i][1], b[i][2])],
               [i \in DOMAIN k |-> ListLevel(k[i][1], k[i][2])]) :
        s \in Symbols, n \in 2..MaxSeq,
        b \in SeqUpTo(LadderBidPairs \cup MalformedPairs, 1),
        k \in SeqUpTo(LadderAskPairs \cup MalformedPairs, 1)}

NextLadder ==
    \/ \E data \in LadderMessages : HandleOrderbookMessage(data)
    \/ RecoveryResume

SpecLadder == Init /\ [][NextLadder]_vars

RECURSIVE Str(_)
\* str(n) of a natural number.
Str(n) ==
    IF n < 10 THEN <<CHOOSE c \in DigitChars : DigitValue(c) = n>>
    ELSE Str(n \div 10) \o Str(n % 10)

\* The feed of the checksum specification: books up to MaxDepth levels
\* deep on a side, asks above 50 and bids below, and deltas that touch the
\* best level, the last one and one beyond it.
AskPrice(rank) == Str(50 + rank)
BidPrice(rank) == Str(50 - rank)
SnapshotDepths == {0, 1, MaxDepth - 1, MaxDepth}
DeltaRanks == {1, MaxDepth, MaxDepth + 1}

\* A snapshot lists each side worst price first; the book sorts it.
ChecksumMessages ==
    {L2Updates("snapshot", s, 1, 1,
               [i \in 1..b |-> ListLevel(BidPrice(b + 1 - i), S_5)],
               [i \in 1..a |-> ListLevel(AskPrice(a + 1 - i), S_5)]) :
        s \in Symbols, a \in SnapshotDepths, b \in SnapshotDepths}
    \cup
    {L2Updates("update", s, n, 1, <<ListLevel(BidPrice(r), z)>>, <<>>) :
        s \in Symbols, n \in 2..MaxSeq, r \in DeltaRanks, z \in {S_7, S_0}}
    \cup
    {L2Updates("update", s, n, 1, <<>>, <<ListLevel(AskPrice(r), z)>>) :
        s \in Symbols, n \in 2..MaxSeq, r \in DeltaRanks, z \in {S_7, S_0}}

NextChecksum ==
    \/ \E data \in ChecksumMessages : HandleOrderbookMessage(data)
    \/ RecoveryResume

SpecChecksum == Init /\ [][NextChecksum]_vars

\* The feed of the notification specification: a snapshot and the deltas
\* after it, each with or without a "cs" field.  The field is 0, the
\* checksum of the empty book, the checksum of the book with one level a
\* side, or a value that is the checksum of no book of this feed.
CsEmptyBook == compute_checksum(NewOrderBook("BTCUSD"))
CsOneEach ==
    compute_checksum([NewOrderBook("BTCUSD") EXCEPT
                        !.raw_asks = <<<<P_3_0, S_5>>>>,
                        !.raw_bids = <<<<P_1_0, S_5>>>>])
CsValues == {<<0, 0>>, CsEmptyBook, CsOneEach, <<1, 1>>}

WithCs(data) == {data} \cup {data @@ [cs |-> c] : c \in CsValues}

NotifyMessages ==
    UNION {WithCs(L2Updates("snapshot", s, 1, 1,
                   [i \in DOMAIN b |-> ListLevel(b[i][1], b[i][2])],
                   [i \in DOMAIN k |-> ListLevel(k[i][1], k[i][2])])) :
              s \in Symbols, b \in SeqUpTo({<<P_1_0, S_5>>}, 1),
              k \in SeqUpTo({<<P_3_0, S_5>>}, 1)}
    \cup
    UNION {WithCs(L2Updates("update", s, n, 1,
                   [i \in DOMAIN b |-> ListLevel(b[i][1], b[i][2])], <<>>)) :
              s \in Symbols, n \in 2..MaxSeq,
              b \in SeqUpTo({<<P_2_0, S_5>>, <<P_1_0, S_0>>}, 1)}

\* The bound methods two strategies register (BaseStrategy.start).
Callbacks == {"s1._on_orderbook_update", "s2._on_orderbook_update"}

NextNotify ==
    \/ \E data \in NotifyMessages : HandleOrderbookMessage(data)
    \/ RecoveryResume
    \/ \E callback \in Callbacks : AddOrderbookCallback(callback)

SpecNotify == Init /\ [][NextNotify]_vars

\* The feed of the quote specification: two bid prices, two ask prices one
\* tick and a hundred ticks above the best bid; a snapshot lists up to
\* MaxSnapLevels bids in any order and at most one ask, a level of size 0
\* or a field that is no number among them; a delta sets, resizes or
\* removes one level of one side.
QuoteBidPairs == {P_1_0, P_2_0} \X {S_5, S_7, S_0}
QuoteAskPairs == {P_2_01, P_3_0} \X {S_5, S_7, S_0}
QuoteSnapshotBids == ({P_1_0, P_2_0} \X {S_5}) \cup {<<P_1_0, S_0>>}
QuoteSnapshotAsks == ({P_2_01, P_3_0} \X {S_5}) \cup MalformedPairs

QuoteMessages ==
    {L2Updates("snapshot", s, 1, 1,
               [i \in DOMAIN b |-> ListLevel(b[i][1], b[i][2])],
               [i \in DOMAIN k |-> ListLevel(k[i][1], k[i][2])]) :
        s \in Symbols,
        b \in SeqUpTo(QuoteSnapshotBids, MaxSnapLevels),
        k \in SeqUpTo(QuoteSnapshotAsks, 1)}
    \cup
    {L2Updates("update", s, n, 1, <<ListLevel(b[1], b[2])>>, <<>>) :
        s \in Symbols, n \in 2..MaxSeq, b \in QuoteBidPairs}
    \cup
    {L2Updates("update", s, n, 1, <<>>, <<ListLevel(k[1], k[2])>>) :
        s \in Symbols, n \in 2..MaxSeq, k \in QuoteAskPairs}

NextQuotes ==
    \/ \E data \in QuoteMessages : HandleOrderbookMessage(data)
    \/ RecoveryResume

SpecQuotes == Init /\ [][NextQuotes]_vars

\* The encodings of one message: the sides named bids/asks or buy/sell,
\* each level a [price, size] array or a {limit_price, size} object, the
\* sequence number under sequence_no or under last_sequence_no.
SideNames == {<<"bids", "asks">>, <<"buy", "sell">>}
LevelForms == {"list", "object"}
SequenceKeys == {"sequence_no", "last_sequence_no"}

Relevel(levels, form) ==
    [i \in 1..Len(levels) |->
        IF form = "list"
        THEN ListLevel(levels[i].item[1], levels[i].item[2])
        ELSE ObjectLevel(levels[i].item[1], levels[i].item[2])]

\* The message data of the feed (arrays under bids and asks, sequence_no)
\* written in another encoding: the same number, the same strings.
Recode(data, names, form, key) ==
    LET rest == Del(Del(Del(data, "bids"), "asks"), "sequence_no")
    IN Put(Put(Put(rest, key, data["sequence_no"]),
               names[1], Relevel(data["bids"], form)),
           names[2], Relevel(data["asks"], form))

Encodings(data) ==
    {Recode(data, names, form, key) :
        names \in SideNames, form \in LevelForms, key \in SequenceKeys}

\* The feed of the encoding specification: every message in each of its
\* encodings; a removal and a field that is no number among the deltas.
EncodingBidPairs == {<<P_2_0, S_5>>, <<P_1_0, S_0>>} \cup MalformedPairs

EncodingBase ==
    {L2Updates("snapshot", s, 1, 1,
               [i \in DOMAIN b |-> ListLevel(b[i][1], b[i][2])],
               [i \in DOMAIN k |-> ListLevel(k[i][1], k[i][2])]) :
        s \in Symbols,
        b \in SeqUpTo({<<P_1_0, S_5>>, <<P_2_0, S_7>>}, MaxSnapLevels),
        k \in SeqUpTo(LadderAskPairs, 1)}
    \cup
    {L2Updates("update", s, n, 1,
               [i \in DOMAIN b |-> ListLevel(b[i][1], b[i][2])],
               [i \in DOMAIN k |-> ListLevel(k[i][1], k[i][2])]) :
        s \in Symbols, n \in 2..MaxSeq,
        b \in SeqUpTo(EncodingBidPairs, 1),
        k \in SeqUpTo(LadderAskPairs, 1)}

EncodingMessages == UNION {Encodings(data) : data \in EncodingBase}

NextEncoding ==
    \/ \E data \in EncodingMessages : HandleOrderbookMessage(data)
    \/ RecoveryResume

SpecEncoding == Init /\ [][NextEncoding]_vars

----------------------------------------------------------------------------
(* The converter on its own: products are registered and the conversions   *)
(* are called on prices, sizes and integers.                               *)

ConvertSymbols == {"BTCUSD", "ETHUSD"}

T_0_5 == <<"0", ".", "5">>
T_0_04 == <<"0", ".", "0", "4">>
T_5 == <<"5">>
TickSizes == {TickSize, T_0_5, T_0_04, T_5}

P_0_5 == <<"0", ".", "5">>
P_1_5 == <<"1", ".", "5">>
P_12_5 == <<"1", "2", ".", "5">>
P_12_50 == <<"1", "2", ".", "5", "0">>
P_10 == <<"1", "0">>
PriceInputs ==
    {P_0_5, P_1_0, P_1_005, P_1_5, P_2_01, P_10, P_12_5, P_12_50, P_bad}

\* Largest of the consecutive integer prices converted back or normalized.
MaxPriceInt == 12
PriceInts == 0..MaxPriceInt \cup {100, 125, 150, 1250, 150000000}

S_10 == <<"1", "0">>
S_10_5 == <<"1", "0", ".", "5">>
S_0_005 == <<"0", ".", "0", "0", "5">>
S_2000000 == <<"2", "0", "0", "0", "0", "0", "0">>
SizeInputs ==
    {IntSize(n) : n \in {0, 10, 1000000, 2000000}}
    \cup {StrSize(x) : x \in {S_0, S_10, S_10_5, S_0_005, S_tiny, S_2000000,
                              P_bad}}
SizeInts ==
    {0, 10, 1000000, 1000001, 2000000, 500000, 1050000000}

Returned(op, symbol, arg, value) ==
    [op |-> op, symbol |-> symbol, arg |-> arg, raised |-> FALSE,
     value |-> value]
Raised(op, symbol, arg) ==
    [op |-> op, symbol |-> symbol, arg |-> arg, raised |-> TRUE]

RegisterProduct(symbol, tick_size) ==
    /\ product_scales' = register_product(product_scales, symbol, tick_size)
    /\ product_tick_sizes' =
          register_product_tick(product_tick_sizes, symbol, tick_size)
    /\ converted' = Returned("register_product", symbol, tick_size, 0)
    /\ UNCHANGED besideConverter

PriceToInteger(symbol, price) ==
    /\ converted' = IF PriceParses(price)
                    THEN Returned("price_to_integer", symbol, price,
                                  price_to_integer(symbol, price))
                    ELSE Raised("price_to_integer", symbol, price)
    /\ UNCHANGED <<besideConverter, product_scales, product_tick_sizes>>

IntegerToPrice(symbol, price_int) ==
    /\ converted' = Returned("integer_to_price", symbol, price_int,
                             integer_to_price(symbol, price_int))
    /\ UNCHANGED <<besideConverter, product_scales, product_tick_sizes>>

NormalizePrice(symbol, price_int) ==
    /\ converted' = Returned("normalize_price", symbol, price_int,
                             normalize_price(symbol, price_int))
    /\ UNCHANGED <<besideConverter, product_scales, product_tick_sizes>>

SizeToInteger(size) ==
    /\ converted' = IF size.isinstance = "str" /\ ~SizeParses(size.value)
                    THEN Raised("size_to_integer", "", size)
                    ELSE Returned("size_to_integer", "", size,
                                  size_to_integer_of(size))
    /\ UNCHANGED <<besideConverter, product_scales, product_tick_sizes>>

IntegerToSize(size_int) ==
    /\ converted' = Returned("integer_to_size", "", size_int,
                             integer_to_size(size_int))
    /\ UNCHANGED <<besideConverter, product_scales, product_tick_sizes>>

\* The converter as constructed: nothing registered.
InitConvert ==
    /\ product_scales = <<>>
    /\ product_tick_sizes = <<>>
    /\ converted = NoCall
    /\ InitManager
    /\ InitTransport
    /\ InitPaper

NextConvert ==
    \/ \E symbol \in ConvertSymbols, tick_size \in TickSizes :
          RegisterProduct(symbol, tick_size)
    \/ \E symbol \in ConvertSymbols, price \in PriceInputs :
          PriceToInteger(symbol, price)
    \/ \E symbol \in ConvertSymbols, price_int \in PriceInts :
          IntegerToPrice(symbol, price_int)
    \/ \E symbol \in ConvertSymbols, price_int \in PriceInts :
          NormalizePrice(symbol, price_int)
    \/ \E size \in SizeInputs : SizeToInteger(size)
    \/ \E size_int \in SizeInts : IntegerToSize(size_int)

SpecConvert == InitConvert /\ [][NextConvert]_vars

----------------------------------------------------------------------------
(* The transport's dispatcher (client/websocket.py).  A channel or type    *)
(* name is the sequence of its parts: <<"l2_updates", "BTCUSD">> is        *)
(* "l2_updates.BTCUSD", <<"snapshot">> is "snapshot".                      *)

\* Longest handler list of one channel or type.
MaxHandlers == 2

\* "." in channel_or_type or channel_or_type.startswith("v2/")
IsChannelName(name) == IF Len(name) > 1 THEN TRUE ELSE name[1] = "v2/ticker"

\* add_handler, on the channel registry.
add_channel_handler(handlers, name, handler) ==
    IF IsChannelName(name)
    THEN Put(handlers, name, Append(Get(handlers, name, <<>>), handler))
    ELSE handlers

\* add_handler, on the type registry.
add_message_handler(handlers, name, handler) ==
    IF IsChannelName(name) THEN handlers
    ELSE Put(handlers, name[1], Append(Get(handlers, name[1], <<>>), handler))

\* for handler in ...: asyncio.create_task(handler(data))
Tasks(handlers, data) == [i \in 1..Len(handlers) |-> <<handlers[i], data>>]

\* The channel branch of one message type: the handlers of
\* f"{channel}.{symbol}" when the message has a symbol.
ChannelTasks(channel, data) ==
    IF MissingSymbol(data) THEN <<>>
    ELSE Tasks(Get(channel_handlers, <<channel, data["symbol"]>>, <<>>), data)

\* self._message_handlers.get(key, [])
TypeTasks(key, data) == Tasks(Get(message_handlers, key, <<>>), data)

\* channel_key = f"l2_orderbook.{symbol}", in both order-book branches.
OrderbookChannelKey == "l2_orderbook"

\* _handle_message: the tasks it creates, in order, and the reply it
\* sends.  It dispatches on data.get("type") alone.
handle_message(data) ==
    LET msg_type == Get(data, "type", "None")
        Created(tasks) == [tasks |-> tasks, reply |-> "none"]
    IN IF msg_type = "heartbeat"
       THEN [tasks |-> <<>>, reply |-> "heartbeat"]
       ELSE IF msg_type = "subscriptions"
       THEN Created(TypeTasks("subscriptions", data))
       ELSE IF msg_type = "l2_orderbook"
       THEN Created(ChannelTasks(OrderbookChannelKey, data)
                    \o TypeTasks("l2_orderbook", data))
       ELSE IF msg_type \in {"snapshot", "update"}
       THEN Created(ChannelTasks(OrderbookChannelKey, data)
                    \o TypeTasks(msg_type, data))
       ELSE IF msg_type \in {"all_trades_snapshot", "all_trades"}
       THEN Created(ChannelTasks("all_trades", data)
                    \o TypeTasks(msg_type, data))
       ELSE IF msg_type = "v2/ticker"
       THEN Created(ChannelTasks("v2/ticker", data) \o TypeTasks("ticker", data))
       ELSE Created(TypeTasks(msg_type, data))

\* add_handler; a list holds the same handler as often as it was added.
AddHandler(name, handler) ==
    /\ Len(Get(channel_handlers, name, <<>>)) < MaxHandlers
    /\ IF IsChannelName(name) THEN TRUE
       ELSE Len(Get(message_handlers, name[1], <<>>)) < MaxHandlers
    /\ channel_handlers' = add_channel_handler(channel_handlers, name, handler)
    /\ message_handlers' = add_message_handler(message_handlers, name, handler)
    /\ UNCHANGED <<managerVars, tradeVars, connectionVars, consumerVars,
                   paperVars, product_scales, product_tick_sizes, converted,
                   dispatched, ready_tasks>>

\* One message off the socket, up to the creation of the tasks; the tasks
\* are handlers of the caller's and are not run here.
HandleMessage(data) ==
    /\ dispatched' = handle_message(data)
    /\ UNCHANGED <<managerVars, tradeVars, connectionVars, consumerVars,
                   paperVars, product_scales, product_tick_sizes, converted,
                   channel_handlers, message_handlers, ready_tasks>>

\* The handlers: the one subscribe_orderbook registers, and another.
OrderbookHandler == "MarketDataManager._handle_orderbook_message"
Handlers == {OrderbookHandler, "test_handler"}

\* The names handlers are registered under: the order-book channel of
\* either configuration, and a message type.
HandlerNames ==
    {<<"l2_updates", s>> : s \in Symbols}
    \cup {<<"l2_orderbook", s>> : s \in Symbols}
    \cup {<<"snapshot">>}

\* What the socket delivers: the messages of the l2_updates channel (type
\* and action), the same without the type field, messages typed by their
\* action, l2_orderbook snapshots, a heartbeat, a trade, and the rest.
WsMessages ==
    {L2Updates(a, s, 1, 1, <<>>, <<>>) : a \in {"snapshot", "update"},
                                        s \in Symbols}
    \cup {[action |-> a, symbol |-> s, timestamp |-> 1, sequence_no |-> 1,
           buy |-> <<>>, sell |-> <<>>] : a \in {"snapshot", "update"},
                                         s \in Symbols}
    \cup {[type |-> "snapshot", symbol |-> s, timestamp |-> 1,
           sequence_no |-> 1, bids |-> <<>>, asks |-> <<>>] : s \in Symbols}
    \cup {L2Orderbook(s, 1, 1, <<>>, <<>>) : s \in Symbols}
    \cup {[type |-> "heartbeat"]}
    \cup {[type |-> "all_trades", symbol |-> s] : s \in Symbols}
    \cup OtherMessages

NextRouting ==
    \/ \E name \in HandlerNames, handler \in Handlers : AddHandler(name, handler)
    \/ \E data \in WsMessages : HandleMessage(data)

SpecRouting == Init /\ [][NextRouting]_vars

----------------------------------------------------------------------------
(* Trades (core/market_data.py, models/trade.py).  No trade callback is    *)
(* registered in this specification, so notifying them creates no task.    *)

\* Most trades one symbol receives before its list is discarded.
MaxTradesReceived == 130
\* Trades in a large all_trades_snapshot message.
MaxBatch == 60

\* Trade.from_api raises on an entry without price or size, or with one
\* that is no number.
TradeParses(trade_data) ==
    IF Has(trade_data, "price") /\ Has(trade_data, "size")
    THEN PriceParses(trade_data["price"]) /\ SizeParses(trade_data["size"])
    ELSE FALSE

\* Trade.from_api
from_api(symbol, trade_data) ==
    [symbol |-> symbol,
     price |-> price_to_integer(symbol, trade_data["price"]),
     size |-> size_to_integer(trade_data["size"]),
     timestamp |-> Get(trade_data, "timestamp", 0),
     side |-> IF Get(trade_data, "buyer_role", "") = "taker" THEN "buy"
              ELSE "sell"]

RECURSIVE ParseTrades(_, _)
\* new_trades: the entries that parse, in the order of the message.
ParseTrades(symbol, trades_data) ==
    IF trades_data = <<>> THEN <<>>
    ELSE IF TradeParses(Head(trades_data))
    THEN <<from_api(symbol, Head(trades_data))>>
         \o ParseTrades(symbol, Tail(trades_data))
    ELSE ParseTrades(symbol, Tail(trades_data))

\* trades_data = data.get("trades"), the message itself when there is none
TradesData(data) == IF Has(data, "trades") THEN data["trades"] ELSE <<data>>

\* Mutant: the oldest trades are kept.
store_trades_keep_first(stored, new_trades) ==
    LET all == stored \o new_trades
    IN IF Len(all) > max_trades_per_symbol
       THEN SubSeq(all, 1, max_trades_per_symbol)
       ELSE all

\* extend, then the slice [-self._max_trades_per_symbol:] of a list that is
\* longer.
store_trades(stored, new_trades) ==
    LET all == stored \o new_trades
    IN IF Len(all) > max_trades_per_symbol
       THEN SubSeq(all, Len(all) - max_trades_per_symbol + 1, Len(all))
       ELSE all

TradeChannel(symbol) == <<"all_trades", symbol>>

\* subscribe_trades: an empty list for a new symbol, then the subscribe
\* request.
SubscribeTrades(symbol) ==
    /\ IF Has(trades, symbol) THEN UNCHANGED tradeVars
       ELSE /\ trades' = Put(trades, symbol, <<>>)
            /\ trade_log' = Put(trade_log, symbol, <<>>)
    /\ subscriptions' = subscriptions \cup {TradeChannel(symbol)}
    /\ UNCHANGED <<steadyVars, product_scales, orderbooks, pending_snapshots,
                   recovering, unsub_waiting, sent, outcome, run,
                   orderbook_callbacks, notified, checksum_warned>>

\* unsubscribe_trades: the unsubscribe request, then, under the lock, the
\* list is deleted.
UnsubscribeTrades(symbol) ==
    /\ LockFree
    /\ subscriptions' = subscriptions \ {TradeChannel(symbol)}
    /\ trades' = Del(trades, symbol)
    /\ trade_log' = Del(trade_log, symbol)
    /\ UNCHANGED <<steadyVars, product_scales, orderbooks, pending_snapshots,
                   recovering, unsub_waiting, sent, outcome, run,
                   orderbook_callbacks, notified, checksum_warned>>

\* _handle_trade_message: a message without a symbol is dropped before the
\* lock; under the lock the entries that parse are appended and the list
\* is cut to its newest max_trades_per_symbol entries.
HandleTradeMessage(data) ==
    \E new_trades \in {IF MissingSymbol(data) THEN <<>>
                       ELSE ParseTrades(data["symbol"], TradesData(data))} :
       /\ IF MissingSymbol(data) THEN TRUE ELSE LockFree
       /\ IF MissingSymbol(data) THEN UNCHANGED tradeVars
          ELSE /\ Len(Get(trade_log, data["symbol"], <<>>)) + Len(new_trades)
                     <= MaxTradesReceived
               /\ trades' = Put(trades, data["symbol"],
                                store_trades(Get(trades, data["symbol"], <<>>),
                                             new_trades))
               /\ trade_log' = Put(trade_log, data["symbol"],
                                   Get(trade_log, data["symbol"], <<>>)
                                   \o new_trades)
       /\ UNCHANGED <<managerVars, steadyVars, product_scales>>

\* One entry of a trade message; the exchange stamps the n-th trade of a
\* symbol with time n.
TradeEntry(n) ==
    [buyer_role |-> IF n % 2 = 1 THEN "taker" ELSE "maker",
     price |-> P_1_0, size |-> S_5, timestamp |-> n]
BadTradeEntry(n) == [TradeEntry(n) EXCEPT !.price = P_bad]

\* The trade messages that may follow n trades of the symbol: one trade,
\* one that does not parse, snapshots of three and of MaxBatch trades, a
\* snapshot whose middle entry does not parse, a message without symbol.
TradeMessages(symbol, n) ==
    {TradeEntry(n + 1) @@ [type |-> "all_trades", symbol |-> symbol],
     BadTradeEntry(n + 1) @@ [type |-> "all_trades", symbol |-> symbol],
     [type |-> "all_trades_snapshot", symbol |-> symbol,
      trades |-> [i \in 1..3 |-> TradeEntry(n + i)]],
     [type |-> "all_trades_snapshot", symbol |-> symbol,
      trades |-> [i \in 1..MaxBatch |-> TradeEntry(n + i)]],
     [type |-> "all_trades_snapshot", symbol |-> symbol,
      trades |-> <<TradeEntry(n + 1), BadTradeEntry(n + 2), TradeEntry(n + 2)>>],
     [type |-> "all_trades", price |-> P_1_0, size |-> S_5]}

NextTrades ==
    \/ \E symbol \in Symbols :
          \E data \in TradeMessages(symbol,
                                    Len(Get(trade_log, symbol, <<>>))) :
             HandleTradeMessage(data)
    \/ \E symbol \in Symbols : SubscribeTrades(symbol)
    \/ \E symbol \in Symbols : UnsubscribeTrades(symbol)

SpecTrades == Init /\ [][NextTrades]_vars

----------------------------------------------------------------------------
(* The paper order manager.  Every operation but simulate_fill sleeps for *)
(* the simulated latency before it reads or writes an order; between the  *)
(* call and the wake-up any other coroutine may run.  From the wake-up to *)
(* its return an operation does not await.                                 *)

\* Most coroutines of the paper manager suspended at once.
MaxPaperTasks == 2
\* Most orders placed in one run.
MaxOrdersPlaced == 3

\* The Order objects the caller places: a limit order and a market order.
\* A price is an optional integer: <<p>>, or <<>> for None.
PaperOrders ==
    {[client_order_id |-> "o1", order_type |-> "limit_order",
      size |-> 2, price |-> <<100>>],
     [client_order_id |-> "o2", order_type |-> "market_order",
      size |-> 5, price |-> <<>>]}

\* The ids the caller cancels and fills: the orders' and one never placed.
OrderIds == {"o1", "o2", "o9"}

\* place_order after its sleep: the order is opened and stored under its
\* id.  An Order object placed again keeps what an earlier fill wrote to it.
place_order(os, order) ==
    Put(os, order.client_order_id,
        IF Has(os, order.client_order_id)
        THEN [os[order.client_order_id] EXCEPT !.status = "open"]
        ELSE [order_type |-> order.order_type, status |-> "open",
              size |-> order.size, price |-> order.price,
              filled_size |-> 0, average_fill_price |-> <<>>])

\* cancel_order with every known order taken for cancellable.
cancel_order_any_status(os, client_order_id) ==
    IF Has(os, client_order_id)
    THEN [orders |-> [os EXCEPT ![client_order_id].status = "cancelled"],
          returned |-> TRUE]
    ELSE [orders |-> os, returned |-> FALSE]

\* cancel_order after its sleep: the orders it leaves and what it returns.
cancel_order(os, client_order_id) ==
    IF Has(os, client_order_id)
    THEN IF os[client_order_id].status \in {"open", "pending"}
         THEN [orders |-> [os EXCEPT ![client_order_id].status = "cancelled"],
               returned |-> TRUE]
         ELSE [orders |-> os, returned |-> FALSE]
    ELSE [orders |-> os, returned |-> FALSE]

\* _simulate_fill filling an order whatever its status.
fill_order_any_status(os, order_id) ==
    IF Has(os, order_id)
    THEN [os EXCEPT ![order_id].status = "filled",
                    ![order_id].filled_size = os[order_id].size,
                    ![order_id].average_fill_price = os[order_id].price]
    ELSE os

\* _simulate_fill after its sleep, and simulate_fill without a fill price:
\* an open order fills in full at its own price.
fill_order(os, order_id) ==
    IF Has(os, order_id)
    THEN IF os[order_id].status = "open"
         THEN [os EXCEPT ![order_id].status = "filled",
                         ![order_id].filled_size = os[order_id].size,
                         ![order_id].average_fill_price = os[order_id].price]
         ELSE os
    ELSE os

\* The placements under way.
Placing ==
    Len(SelectSeq(paper_tasks, LAMBDA t : t.op = "place_order"))

\* place_order is called and sleeps.
PlaceOrder(order) ==
    /\ Len(paper_tasks) < MaxPaperTasks
    /\ order_counter + Placing < MaxOrdersPlaced
    /\ paper_tasks' = Append(paper_tasks,
                             [op |-> "place_order", order |-> order])
    /\ UNCHANGED <<managerVars, tradeVars, connectionVars, consumerVars,
                   transportVars, product_scales, product_tick_sizes,
                   converted, orders, order_counter, cancel_result>>

\* place_order wakes: it numbers, opens and stores the order; a market
\* order gets a fill task, which runs up to its own sleep.
PlaceOrderFinish(i) ==
    /\ i \in 1..Len(paper_tasks)
    /\ paper_tasks[i].op = "place_order"
    /\ order_counter' = order_counter + 1
    /\ orders' = place_order(orders, paper_tasks[i].order)
    /\ paper_tasks' =
          IF paper_tasks[i].order.order_type = "market_order"
          THEN Append(RemoveAt(paper_tasks, i),
                      [op |-> "_simulate_fill",
                       order |-> paper_tasks[i].order])
          ELSE RemoveAt(paper_tasks, i)
    /\ UNCHANGED <<managerVars, tradeVars, connectionVars, consumerVars,
                   transportVars, product_scales, product_tick_sizes,
                   converted, cancel_result>>

\* cancel_order is called and sleeps.
CancelOrder(client_order_id) ==
    /\ Len(paper_tasks) < MaxPaperTasks
    /\ paper_tasks' = Append(paper_tasks,
                             [op |-> "cancel_order",
                              client_order_id |-> client_order_id])
    /\ UNCHANGED <<managerVars, tradeVars, connectionVars, consumerVars,
                   transportVars, product_scales, product_tick_sizes,
                   converted, orders, order_counter, cancel_result>>

\* cancel_order wakes, decides and returns.
CancelOrderFinish(i) ==
    /\ i \in 1..Len(paper_tasks)
    /\ paper_tasks[i].op = "cancel_order"
    /\ \E r \in {cancel_order(orders, paper_tasks[i].client_order_id)} :
          /\ orders' = r.orders
          /\ cancel_result' =
                [client_order_id |-> paper_tasks[i].client_order_id,
                 returned |-> r.returned]
    /\ paper_tasks' = RemoveAt(paper_tasks, i)
    /\ UNCHANGED <<managerVars, tradeVars, connectionVars, consumerVars,
                   transportVars, product_scales, product_tick_sizes,
                   converted, order_counter>>

\* The fill task of a market order wakes.
SimulateFillTask(i) ==
    /\ i \in 1..Len(paper_tasks)
    /\ paper_tasks[i].op = "_simulate_fill"
    /\ orders' = fill_order(orders, paper_tasks[i].order.client_order_id)
    /\ paper_tasks' = RemoveAt(paper_tasks, i)
    /\ UNCHANGED <<managerVars, tradeVars, connectionVars, consumerVars,
                   transportVars, product_scales, product_tick_sizes,
                   converted, order_counter, cancel_result>>

\* simulate_fill: the manual fill, which does not sleep.
SimulateFill(order_id) ==
    /\ orders' = fill_order(orders, order_id)
    /\ UNCHANGED <<managerVars, tradeVars, connectionVars, consumerVars,
                   transportVars, product_scales, product_tick_sizes,
                   converted, order_counter, paper_tasks, cancel_result>>

NextPaper ==
    \/ \E order \in PaperOrders : PlaceOrder(order)
    \/ \E i \in 1..MaxPaperTasks : PlaceOrderFinish(i)
    \/ \E client_order_id \in OrderIds : CancelOrder(client_order_id)
    \/ \E i \in 1..MaxPaperTasks : CancelOrderFinish(i)
    \/ \E i \in 1..MaxPaperTasks : SimulateFillTask(i)
    \/ \E order_id \in OrderIds : SimulateFill(order_id)

SpecPaper == Init /\ [][NextPaper]_vars

\* The event loop runs a task whose sleep is over: a fill task that is
\* suspended is resumed.
SpecPaperLive ==
    SpecPaper /\ WF_vars(\E i \in 1..MaxPaperTasks : SimulateFillTask(i))

----------------------------------------------------------------------------
(* The manager on its transport: subscribe_orderbook registers the        *)
(* handler, the transport creates one task per registered handler for a   *)
(* message, and the tasks run in the order of their creation.             *)

\* Most handler tasks created and not yet started.
MaxReadyTasks == 2

\* What the socket delivers in this specification: snapshots and updates
\* typed by "snapshot" and "update", and l2_orderbook snapshots; with the
\* default ORDERBOOK_CHANNEL these reach the handlers of the symbol.
SessionMessages ==
    {[type |-> t, symbol |-> s, timestamp |-> 1, sequence_no |-> n,
      bids |-> <<ListLevel(P_1_0, S_5)>>, asks |-> <<>>] :
        t \in {"snapshot", "update"}, s \in Symbols, n \in 1..MaxSeq}
    \cup {L2Orderbook(s, 1, 1, <<>>, <<>>) : s \in Symbols}

\* The messages of the tasks that run the manager's handler.
RECURSIVE ManagerTasks(_)
ManagerTasks(tasks) ==
    IF tasks = <<>> THEN <<>>
    ELSE IF Head(tasks)[1] = OrderbookHandler
    THEN <<Head(tasks)[2]>> \o ManagerTasks(Tail(tasks))
    ELSE ManagerTasks(Tail(tasks))

\* subscribe_orderbook on the transport: a book and a pending flag for a
\* new symbol, the subscribe request, and the handler added to the
\* channel's list, on every call.
SessionSubscribe(symbol) ==
    /\ Len(Get(channel_handlers, Channel(symbol), <<>>)) < MaxHandlers
    /\ IF Has(orderbooks, symbol)
       THEN UNCHANGED <<orderbooks, pending_snapshots>>
       ELSE /\ orderbooks' = Put(orderbooks, symbol, NewOrderBook(symbol))
            /\ pending_snapshots' = Put(pending_snapshots, symbol, TRUE)
    /\ subscriptions' = subscriptions \cup {Channel(symbol)}
    /\ channel_handlers' =
          add_channel_handler(channel_handlers, Channel(symbol),
                              OrderbookHandler)
    /\ UNCHANGED <<tradeVars, connectionVars, consumerVars, paperVars,
                   product_scales, product_tick_sizes, converted,
                   message_handlers, dispatched, ready_tasks, recovering,
                   unsub_waiting, sent, outcome, run, orderbook_callbacks,
                   notified, checksum_warned>>

\* _handle_message: the tasks of the manager's handler join the tasks
\* that are ready to run.
SessionReceive(data) ==
    /\ \E d \in {handle_message(data)} :
          /\ Len(ready_tasks) + Len(ManagerTasks(d.tasks)) <= MaxReadyTasks
          /\ dispatched' = d
          /\ ready_tasks' = ready_tasks \o ManagerTasks(d.tasks)
    /\ UNCHANGED <<managerVars, tradeVars, connectionVars, consumerVars,
                   paperVars, product_scales, product_tick_sizes, converted,
                   channel_handlers, message_handlers>>

\* The event loop starts the oldest task: one run of the handler.  Every
\* message of this specification takes the lock, so the task waits while a
\* recovery holds it, and the tasks behind it wait in line.
SessionRunTask ==
    /\ ready_tasks # <<>>
    /\ HandlerRun(Head(ready_tasks))
    /\ ready_tasks' = Tail(ready_tasks)
    /\ UNCHANGED <<tradeVars, connectionVars, consumerVars, paperVars,
                   product_tick_sizes, converted, channel_handlers,
                   message_handlers, dispatched>>

NextSession ==
    \/ \E symbol \in Symbols : SessionSubscribe(symbol)
    \/ \E data \in SessionMessages : SessionReceive(data)
    \/ SessionRunTask
    \/ RecoveryResume
    \/ \E symbol \in Symbols : UnsubscribeOrderbook(symbol)
    \/ \E symbol \in Symbols : UnsubscribeFinish(symbol)

SpecSession == Init /\ [][NextSession]_vars

----------------------------------------------------------------------------
(* The books the manager hands out.  get_orderbook returns the object of   *)
(* self._orderbooks, and _notify_orderbook_callbacks passes that object to *)
(* the task of each callback; the handler's next run writes the same       *)
(* object.  No book is deleted in this specification, so a reference to    *)
(* the book of a symbol stays a reference to the book the handler writes.  *)

\* Most references held at a time.
MaxViews == 2

\* A reference as its holder got it: seen is the book at that moment, now
\* the book the reference leads to.
ViewOf(symbol, via, orderbook) ==
    [symbol |-> symbol, via |-> via, seen |-> orderbook, now |-> orderbook]

\* return self._orderbooks.get(symbol); None is not a reference.
GetOrderbook(symbol) ==
    /\ Has(orderbooks, symbol)
    /\ Cardinality(views) < MaxViews
    /\ views' = views \cup {ViewOf(symbol, "get_orderbook", orderbooks[symbol])}
    /\ UNCHANGED <<managerVars, tradeVars, connectionVars, paperVars,
                   transportVars, product_scales, product_tick_sizes,
                   converted>>

\* asyncio.create_task(callback(symbol, orderbook)): the tasks that were
\* created hold the book of the run.
CallbackViews(tasks) ==
    {ViewOf(tasks[i][2], "callback", tasks[i][3]) : i \in 1..Len(tasks)}

\* One run of the handler beside the references handed out before: what
\* they lead to is the book as the run leaves it.
HandleWithViews(data) ==
    /\ HandlerRun(data)
    /\ views' = {[v EXCEPT !.now = orderbooks'[v.symbol]] : v \in views}
                   \cup CallbackViews(notified')
    /\ Cardinality(views') <= MaxViews
    /\ UNCHANGED <<tradeVars, connectionVars, paperVars, transportVars,
                   product_tick_sizes, converted>>

\* The task of a callback runs to its end, or the caller of get_orderbook
\* is done with the book: the reference is dropped.
ReleaseView(v) ==
    /\ v \in views
    /\ views' = views \ {v}
    /\ UNCHANGED <<managerVars, tradeVars, connectionVars, paperVars,
                   transportVars, product_scales, product_tick_sizes,
                   converted>>

NextViews ==
    \/ \E data \in SessionMessages : HandleWithViews(data)
    \/ RecoveryResume
    \/ \E symbol \in Symbols : SubscribeOrderbook(symbol)
    \/ \E callback \in Callbacks : AddOrderbookCallback(callback)
    \/ \E symbol \in Symbols : GetOrderbook(symbol)
    \/ \E v \in views : ReleaseView(v)

SpecViews == Init /\ [][NextViews]_vars

----------------------------------------------------------------------------
(* Both handlers of the manager on a feed with entries that do not parse. *)
(* They share the manager's lock.                                          *)

\* Order-book messages of which some raise in update_from_snapshot or in
\* apply_update after part of the book was written.
FaultMessages ==
    {L2Updates(a, s, n, 1, <<ListLevel(P_1_0, S_5), ListLevel(p, S_5)>>, <<>>) :
        a \in {"snapshot", "update"}, s \in Symbols, n \in 1..MaxSeq,
        p \in {P_2_0, P_bad}}

\* Trade messages after n trades of the symbol: a trade that does not
\* parse, and snapshots of MaxBatch entries, all good or the first one bad.
FaultTrades(symbol, n) ==
    {BadTradeEntry(n + 1) @@ [type |-> "all_trades", symbol |-> symbol],
     [type |-> "all_trades_snapshot", symbol |-> symbol,
      trades |-> [i \in 1..MaxBatch |-> TradeEntry(n + i)]],
     [type |-> "all_trades_snapshot", symbol |-> symbol,
      trades |-> [i \in 1..MaxBatch |->
                     IF i = 1 THEN BadTradeEntry(n + 1) ELSE TradeEntry(n + i - 1)]]}

NextFaults ==
    \/ \E data \in FaultMessages : HandleOrderbookMessage(data)
    \/ RecoveryResume
    \/ \E symbol \in Symbols :
          \E data \in FaultTrades(symbol, Len(Get(trade_log, symbol, <<>>))) :
             HandleTradeMessage(data)

SpecFaults == Init /\ [][NextFaults]_vars

\* The handler with callbacks registered, on every kind of message: ones
\* that apply, ones that raise, errors, unknown types, ones without symbol.
NextCallbacks ==
    \/ \E data \in FaultMessages \cup OtherMessages :
          HandleOrderbookMessage(data)
    \/ RecoveryResume
    \/ \E symbol \in Symbols : SubscribeOrderbook(symbol)
    \/ \E callback \in Callbacks : AddOrderbookCallback(callback)

SpecCallbacks == Init /\ [][NextCallbacks]_vars

----------------------------------------------------------------------------
(* The handler on messages whose timestamps differ: numbers, strings of   *)
(* digits, strings int() does not take, and no timestamp at all.           *)

T_5_text == <<"5">>
T_1_5_text == <<"1", ".", "5">>

\* The timestamp fields a message may carry.
TimestampFields ==
    {[timestamp |-> ts] : ts \in Timestamps}
    \cup {[timestamp_str |-> t] : t \in {T_5_text, T_1_5_text}}
    \cup {<<>>}

TimestampMessages ==
    {[type |-> "l2_updates", action |-> a, symbol |-> s, sequence_no |-> n,
      bids |-> <<ListLevel(p, S_5)>>, asks |-> <<>>] @@ f :
        a \in {"snapshot", "update"}, s \in Symbols, n \in 1..MaxSeq,
        p \in {P_1_0, P_2_0}, f \in TimestampFields}

NextTimestamps ==
    \/ \E data \in TimestampMessages : HandleOrderbookMessage(data)
    \/ RecoveryResume
    \/ \E symbol \in Symbols : SubscribeOrderbook(symbol)

SpecTimestamps == Init /\ [][NextTimestamps]_vars

----------------------------------------------------------------------------
(* The connection of the WebSocket client.  connect starts a receive task *)
(* and a watchdog task; each of them, when it finds the connection gone,  *)
(* calls _schedule_reconnect, which sleeps and then calls connect.        *)

\* Config.WS_MAX_RECONNECT_ATTEMPTS's default.
WS_MAX_RECONNECT_ATTEMPTS == 10

\* The channels the engine subscribes for a strategy's symbol.
WsChannels == {Channel(s) : s \in Symbols} \cup {TradeChannel(s) : s \in Symbols}

\* connect: it returns at once while _running is set.  A socket the server
\* accepts starts the tasks, zeroes the counter and requests every channel
\* of the subscription set (_resubscribe_all); on a failure _running is
\* cleared, and _schedule_reconnect, called next, returns for that reason.
connect(c, accepted) ==
    IF c.running THEN c
    ELSE IF accepted
    THEN [c EXCEPT !.running = TRUE, !.ws = "open", !.reconnect_attempts = 0,
                   !.requested = c.subscriptions,
                   !.receive_task = "reading", !.watchdog_task = "waiting"]
    ELSE [c EXCEPT !.running = FALSE]

\* _schedule_reconnect up to its sleep, called by the task named: the
\* task returns when the client is not running or the attempts are used
\* up (then _running is cleared), else it counts the attempt and sleeps.
schedule_reconnect(c, task) ==
    IF ~c.running THEN [c EXCEPT ![task] = "done"]
    ELSE IF c.reconnect_attempts >= WS_MAX_RECONNECT_ATTEMPTS
    THEN [c EXCEPT !.running = FALSE, ![task] = "done"]
    ELSE [c EXCEPT !.reconnect_attempts = @ + 1, ![task] = "sleeping"]

\* _schedule_reconnect after its sleep:
\* if self._running and (not self.ws or self.ws.closed): connect
reconnect_after_sleep(c, task, accepted) ==
    LET woke == [c EXCEPT ![task] = "done"]
    IN IF c.running /\ c.ws # "open" THEN connect(woke, accepted) ELSE woke

\* The caller connects (engine.start); the server accepts or refuses.
WsConnect(accepted) ==
    /\ ~connection.running
    /\ connection' = connect(connection, accepted)
    /\ UNCHANGED <<managerVars, tradeVars, consumerVars, paperVars,
                   transportVars, product_scales, product_tick_sizes,
                   converted>>

\* disconnect: _running is cleared, the tasks are cancelled, the socket is
\* closed.
WsDisconnect ==
    /\ connection.running
    /\ connection' = [connection EXCEPT
                        !.running = FALSE,
                        !.receive_task = "none", !.watchdog_task = "none",
                        !.ws = IF @ = "open" THEN "closed" ELSE @]
    /\ UNCHANGED <<managerVars, tradeVars, consumerVars, paperVars,
                   transportVars, product_scales, product_tick_sizes,
                   converted>>

\* subscribe: the channel joins the subscription set; the request is sent
\* when the socket is open.
WsSubscribe(channel) ==
    /\ connection' = [connection EXCEPT
                        !.subscriptions = @ \cup {channel},
                        !.requested = IF connection.ws = "open"
                                      THEN @ \cup {channel} ELSE @]
    /\ UNCHANGED <<managerVars, tradeVars, consumerVars, paperVars,
                   transportVars, product_scales, product_tick_sizes,
                   converted>>

\* The server closes the socket.
ServerCloses ==
    /\ connection.ws = "open"
    /\ connection' = [connection EXCEPT !.ws = "closed"]
    /\ UNCHANGED <<managerVars, tradeVars, consumerVars, paperVars,
                   transportVars, product_scales, product_tick_sizes,
                   converted>>

\* _receive_loop: the iteration over the socket ends, and the finally
\* clause calls _schedule_reconnect if the client is running.
ReceiveLoopEnds ==
    /\ connection.receive_task = "reading"
    /\ connection.ws = "closed"
    /\ connection' = schedule_reconnect(connection, "receive_task")
    /\ UNCHANGED <<managerVars, tradeVars, consumerVars, paperVars,
                   transportVars, product_scales, product_tick_sizes,
                   converted>>

\* _watchdog_loop after a sleep of 60 seconds: no heartbeat for two
\* minutes (stale), or a closed socket, and it calls _schedule_reconnect
\* and leaves the loop; else it sleeps again while the client is running.
WatchdogCheck(stale) ==
    /\ connection.watchdog_task = "waiting"
    /\ connection' =
          IF stale \/ connection.ws = "closed"
          THEN schedule_reconnect(connection, "watchdog_task")
          ELSE IF connection.running THEN connection
          ELSE [connection EXCEPT !.watchdog_task = "done"]
    /\ UNCHANGED <<managerVars, tradeVars, consumerVars, paperVars,
                   transportVars, product_scales, product_tick_sizes,
                   converted>>

\* A task asleep in _schedule_reconnect wakes.
ReconnectWake(task, accepted) ==
    /\ connection[task] = "sleeping"
    /\ connection' = reconnect_after_sleep(connection, task, accepted)
    /\ UNCHANGED <<managerVars, tradeVars, consumerVars, paperVars,
                   transportVars, product_scales, product_tick_sizes,
                   converted>>

ClientTasks == {"receive_task", "watchdog_task"}

NextConnection ==
    \/ \E accepted \in BOOLEAN : WsConnect(accepted)
    \/ WsDisconnect
    \/ \E channel \in WsChannels : WsSubscribe(channel)
    \/ ServerCloses
    \/ ReceiveLoopEnds
    \/ \E stale \in BOOLEAN : WatchdogCheck(stale)
    \/ \E task \in ClientTasks : \E accepted \in BOOLEAN :
          ReconnectWake(task, accepted)

SpecConnection == Init /\ [][NextConnection]_vars

\* The tasks of the client are tasks of a running event loop: one that can
\* run does run.  What the caller and the server do is left open.
SpecConnectionLive ==
    /\ SpecConnection
    /\ WF_vars(ReceiveLoopEnds)
    /\ WF_vars(\E stale \in BOOLEAN : WatchdogCheck(stale))
    /\ WF_vars(\E task \in ClientTasks : \E accepted \in BOOLEAN :
                  ReconnectWake(task, accepted))

----------------------------------------------------------------------------
(* Claims.  The message a formula speaks of ranges over the feed of the    *)
(* specification it is checked under; the book over the reachable books.   *)

IsUpdateFor(data, s) ==
    /\ Has(data, "symbol") /\ data["symbol"] = s
    /\ Has(data, "action") /\ data["action"] = "update"

IsSnapshotFor(data, s) ==
    /\ Has(data, "symbol") /\ data["symbol"] = s
    /\ \/ Has(data, "action") /\ data["action"] = "snapshot"
       \/ ~Has(data, "action") /\ data["type"] = "l2_orderbook"

\* The sequence number a message of the feed carries.
CarriedSeq(data) ==
    IF Has(data, "sequence_no") THEN data["sequence_no"]
    ELSE data["last_sequence_no"]

AllParse(levels) == \A i \in 1..Len(levels) : LevelParses(levels[i])
WellFormed(data) == AllParse(BuyLevels(data)) /\ AllParse(SellLevels(data))

Elements(seq) == {seq[i] : i \in 1..Len(seq)}
Count(seq, x) == Cardinality({i \in 1..Len(seq) : seq[i] = x})
SameBag(a, b) ==
    /\ Len(a) = Len(b)
    /\ \A x \in Elements(a) \cup Elements(b) : Count(a, x) = Count(b, x)

\* C1: apply_update on a book whose sequence_no is N > 0, given a message
\* whose sequence number is not N+1 (a gap, a duplicate, an older number),
\* returns False and leaves every field of the book as it was; the handler
\* of a synced symbol leaves the book unchanged too.
C1_GapLeavesBookUnchanged ==
    \A s \in DOMAIN orderbooks : \A data \in SeqMessages :
        (/\ IsUpdateFor(data, s)
         /\ orderbooks[s].sequence_no > 0
         /\ CarriedSeq(data) # orderbooks[s].sequence_no + 1)
        => /\ apply_update(orderbooks[s], data).result = "gap"
           /\ apply_update(orderbooks[s], data).book = orderbooks[s]
           /\ (~IsPending(s) /\ recovering = NoTask)
                => /\ Handled(data).kind = "gap"
                   /\ Handled(data).orderbooks = orderbooks

\* C1 witness: a gap was detected on a book that holds levels, and the
\* book still carries a positive sequence number.
C1_Witness ==
    /\ outcome = "gap"
    /\ \E s \in DOMAIN orderbooks :
          /\ orderbooks[s].sequence_no > 0
          /\ orderbooks[s].bids # <<>>
          /\ orderbooks[s].raw_bids # <<>>

\* The last entry of a side's array, when its size is positive, is a level
\* of the ladder afterwards.
LastLevelPresent(symbol, levels, ladder) ==
    levels # <<>> =>
        LET last == levels[Len(levels)]
            size == size_to_integer(LevelSizeStr(last))
        IN size > 0 =>
             <<price_to_integer(symbol, LevelPriceStr(last)), size>> \in Elements(ladder)

\* C2: from a snapshot at sequence N > 0, deltas numbered N+1, N+2, ...
\* delivered in that order are all accepted: each apply_update returns
\* True, applies its levels and advances sequence_no by one, so that after
\* k of them sequence_no is N+k.
C2_ContiguousRunAccepted ==
    /\ \A s \in Symbols :
          (run[s].n >= 0 /\ run[s].snap > 0)
          => /\ Has(orderbooks, s)
             /\ orderbooks[s].sequence_no = run[s].snap + run[s].n
    /\ \A s \in DOMAIN orderbooks : \A data \in SeqMessages :
          (/\ IsUpdateFor(data, s)
           /\ orderbooks[s].sequence_no > 0
           /\ CarriedSeq(data) = orderbooks[s].sequence_no + 1
           /\ WellFormed(data))
          => LET r == apply_update(orderbooks[s], data)
             IN /\ r.result = "ok"
                /\ r.book.sequence_no = orderbooks[s].sequence_no + 1
                /\ LastLevelPresent(s, BuyLevels(data), r.book.bids)
                /\ LastLevelPresent(s, SellLevels(data), r.book.asks)

\* C2 witness: two deltas in a row were applied after a snapshot at N > 0.
C2_Witness ==
    /\ outcome = "applied"
    /\ \E s \in DOMAIN orderbooks :
          /\ run[s].snap > 0
          /\ run[s].n >= 2
          /\ orderbooks[s].sequence_no = run[s].snap + 2

\* C3: while a symbol's pending-snapshot flag is true or absent, an update
\* message for it is discarded: the handler ends without applying it and
\* the book's fields are what they were (a symbol without a book gets the
\* empty book the handler creates).
C3_PendingUpdateDiscarded ==
    \A s \in Symbols : \A data \in SeqMessages :
        (/\ IsUpdateFor(data, s)
         /\ recovering = NoTask
         /\ (Has(pending_snapshots, s) => pending_snapshots[s]))
        => /\ Handled(data).kind = "skipped"
           /\ Handled(data).orderbooks[s] = BookFor(s)
           /\ Handled(data).pending = pending_snapshots

\* C3 witness: an update was discarded for a symbol whose book holds levels
\* and whose flag is set.
C3_Witness ==
    /\ outcome = "skipped"
    /\ \E s \in DOMAIN orderbooks :
          /\ Has(pending_snapshots, s) /\ pending_snapshots[s]
          /\ orderbooks[s].bids # <<>>
          /\ orderbooks[s].sequence_no > 0

Unsubscribe(s) == <<"unsubscribe", Channel(s)>>
Subscribe(s) == <<"subscribe", Channel(s)>>

C4_Step ==
    \A s \in Symbols :
        \* a gap: the flag is set, then one unsubscribe request is issued
        /\ (recovering = NoTask /\ recovering' = s)
           => /\ outcome' = "gap"
              /\ Has(pending_snapshots', s) /\ pending_snapshots'[s]
              /\ sent' = <<Unsubscribe(s)>>
        \* nothing else is requested while the run sleeps
        /\ (recovering = s /\ recovering' = s) => sent' = sent
        \* then one subscribe request: unsubscribe, subscribe, in that order
        /\ (recovering = s /\ recovering' = NoTask)
           => /\ sent' = <<Unsubscribe(s), Subscribe(s)>>
              /\ Has(pending_snapshots', s) /\ pending_snapshots'[s]
        \* the flag set by a gap is cleared only by a snapshot being applied
        /\ (Has(pending_snapshots, s) /\ pending_snapshots[s]
            /\ Has(pending_snapshots', s) /\ ~pending_snapshots'[s])
           => outcome' = "snapshot"
        \* and while it stays set no update changes the book
        /\ (/\ Get(pending_snapshots, s, TRUE) /\ Get(pending_snapshots', s, TRUE)
            /\ Has(orderbooks, s) /\ Has(orderbooks', s)
            /\ outcome' # "raised")
           => orderbooks'[s] = orderbooks[s]

\* C4: when apply_update returns False for a symbol, the handler sets the
\* symbol's pending-snapshot flag, then issues exactly one unsubscribe
\* request followed by exactly one subscribe request for the symbol's
\* channel; every later update is discarded until a snapshot is applied.
C4_GapRecovery == [][C4_Step]_vars

\* C4 witness: a recovery ran to its end; the flag is still set.
C4_Witness ==
    /\ outcome = "resubscribed"
    /\ \E s \in DOMAIN pending_snapshots :
          /\ pending_snapshots[s]
          /\ sent = <<Unsubscribe(s), Subscribe(s)>>
          /\ Channel(s) \in subscriptions

\* The levels a side's array lists, converted.
ListedInts(symbol, levels) ==
    [i \in 1..Len(levels) |->
        <<price_to_integer(symbol, LevelPriceStr(levels[i])),
          size_to_integer(LevelSizeStr(levels[i]))>>]
ListedRaws(levels) ==
    [i \in 1..Len(levels) |-> <<LevelPriceStr(levels[i]), LevelSizeStr(levels[i])>>]

\* C5: a well-formed snapshot, whatever the book held before (any levels,
\* any sequence_no, flag set or not), is applied: the book then holds
\* exactly the snapshot's levels, sequence number and timestamp, and the
\* symbol's pending-snapshot flag is false.
C5_SnapshotReplacesBook ==
    \A s \in Symbols : \A data \in SeqMessages :
        (IsSnapshotFor(data, s) /\ WellFormed(data) /\ recovering = NoTask)
        => LET h == Handled(data)
               b == h.orderbooks[s]
           IN /\ h.kind = "snapshot"
              /\ h.pending[s] = FALSE
              /\ b.sequence_no = CarriedSeq(data)
              /\ b.timestamp = data["timestamp"]
              /\ SameBag(b.bids, ListedInts(s, BuyLevels(data)))
              /\ SameBag(b.asks, ListedInts(s, SellLevels(data)))
              /\ SameBag(b.raw_bids, ListedRaws(BuyLevels(data)))
              /\ SameBag(b.raw_asks, ListedRaws(SellLevels(data)))

\* C5 witness: a snapshot was applied and the symbol is synced.
C5_Witness ==
    /\ outcome = "snapshot"
    /\ \E s \in DOMAIN orderbooks :
          /\ Has(pending_snapshots, s) /\ ~pending_snapshots[s]
          /\ orderbooks[s].bids # <<>>
          /\ orderbooks[s].asks # <<>>

\* Entry i of the raw ladder is the price point of entry i of the integer
\* ladder, and the two are equally long.
Aligned(symbol, ints, raws) ==
    /\ Len(ints) = Len(raws)
    /\ \A i \in 1..Len(ints) : price_to_integer(symbol, raws[i][1]) = ints[i][1]

\* C6: after every successful snapshot apply or delta apply, on each side
\* the integer ladder and the raw ladder have the same number of entries
\* and entry i of one is the price point of entry i of the other, whatever
\* the price and size strings (prices between ticks, sizes that convert to
\* integer 0).  The code does not keep this.
C6_LaddersAligned ==
    outcome \in {"snapshot", "applied"}
    => \A s \in DOMAIN orderbooks :
          /\ Aligned(s, orderbooks[s].bids, orderbooks[s].raw_bids)
          /\ Aligned(s, orderbooks[s].asks, orderbooks[s].raw_asks)

\* No two entries share a price and the prices run in the side's order:
\* descending (reverse) or ascending.
StrictlyOrdered(levels, reverse) ==
    \A i \in 1..(Len(levels) - 1) :
        IF reverse THEN levels[i][1] > levels[i + 1][1]
        ELSE levels[i][1] < levels[i + 1][1]

C8_LaddersStrictlyOrdered ==
    \A s \in DOMAIN orderbooks :
        /\ StrictlyOrdered(orderbooks[s].bids, TRUE)
        /\ StrictlyOrdered(orderbooks[s].asks, FALSE)

\* C9: a snapshot or delta with a price or size that cannot be parsed, at
\* any position of either array, makes the apply raise and leaves the book
\* exactly as it was before the call.  The code does not keep this.
C9_ParseErrorLeavesBook ==
    \A s \in DOMAIN orderbooks : \A data \in LadderMessages :
        (data["symbol"] = s /\ ~WellFormed(data))
        => IF IsSnapshotFor(data, s)
           THEN /\ update_from_snapshot(orderbooks[s], data).raised
                /\ update_from_snapshot(orderbooks[s], data).book = orderbooks[s]
           ELSE ~SequenceMismatch(orderbooks[s], MessageSeq(data))
                => /\ apply_update(orderbooks[s], data).result = "raise"
                   /\ apply_update(orderbooks[s], data).book = orderbooks[s]

RECURSIVE EntriesText(_, _, _)
\* Entries i..n of a raw ladder as '<price>:<size>', a comma between two.
EntriesText(levels, i, n) ==
    IF i > n THEN <<>>
    ELSE (IF i > 1 THEN <<",">> ELSE <<>>)
         \o levels[i][1] \o <<":">> \o levels[i][2]
         \o EntriesText(levels, i + 1, n)

\* The text the checksum is taken of: at most ten asks, '|', at most ten
\* bids.
ChecksumText(book) ==
    EntriesText(book.raw_asks, 1,
                IF Len(book.raw_asks) > 10 THEN 10 ELSE Len(book.raw_asks))
    \o <<"|">>
    \o EntriesText(book.raw_bids, 1,
                   IF Len(book.raw_bids) > 10 THEN 10 ELSE Len(book.raw_bids))

\* The raw ladder runs in the side's order by numeric price.
RawOrdered(levels, reverse) ==
    \A i \in 1..(Len(levels) - 1) :
        IF reverse
        THEN ~DecLess(Float(levels[i][1]), Float(levels[i + 1][1]))
        ELSE ~DecLess(Float(levels[i + 1][1]), Float(levels[i][1]))

\* The book without the levels ranked eleventh or worse.
TopTen(book) ==
    [book EXCEPT !.raw_asks = SubSeq(@, 1, IF Len(@) > 10 THEN 10 ELSE Len(@)),
                 !.raw_bids = SubSeq(@, 1, IF Len(@) > 10 THEN 10 ELSE Len(@)),
                 !.asks = SubSeq(@, 1, IF Len(@) > 10 THEN 10 ELSE Len(@)),
                 !.bids = SubSeq(@, 1, IF Len(@) > 10 THEN 10 ELSE Len(@))]

\* C10: compute_checksum is the CRC32 of the text made of at most the
\* first ten raw asks (lowest price first) joined by ',', then '|', then
\* at most the first ten raw bids (highest price first), each entry
\* '<price_str>:<size_str>' as received; levels ranked eleventh or worse
\* do not influence it; an empty book yields the CRC32 of '|'.
C10_ChecksumOfTopTen ==
    \A s \in DOMAIN orderbooks :
        LET book == orderbooks[s]
        IN /\ compute_checksum(book) = Crc32(ChecksumText(book))
           /\ compute_checksum(book) = compute_checksum(TopTen(book))
           /\ RawOrdered(book.raw_asks, FALSE)
           /\ RawOrdered(book.raw_bids, TRUE)
           /\ (book.raw_asks = <<>> /\ book.raw_bids = <<>>)
                => compute_checksum(book) = Crc32(<<"|">>)

\* C10 witness: a delta was applied to a book more than ten levels deep on
\* both sides, whose checksum is not that of the empty book.
C10_Witness ==
    /\ outcome = "applied"
    /\ \E s \in DOMAIN orderbooks :
          /\ Len(orderbooks[s].raw_asks) > 10
          /\ Len(orderbooks[s].raw_bids) > 10
          /\ compute_checksum(orderbooks[s]) # Crc32(<<"|">>)

CsMismatch(data, s, h) ==
    IF CsGiven(data) THEN compute_checksum(h.orderbooks[s]) # data["cs"]
    ELSE FALSE

\* One task per entry of the callback list, in order, each with the symbol
\* and the book; every callback is invoked as often as it is listed.
EachNotified(tasks, s, book) ==
    /\ Len(tasks) = Len(orderbook_callbacks)
    /\ \A i \in 1..Len(tasks) : tasks[i] = <<orderbook_callbacks[i], s, book>>
    /\ \A callback \in Callbacks :
          Cardinality({i \in 1..Len(tasks) : tasks[i][1] = callback})
              = Count(orderbook_callbacks, callback)

\* C12: a snapshot or update whose "cs" differs from the checksum computed
\* after the apply is applied all the same (the ladders and sequence_no are
\* those the message gives), the callbacks are notified, the symbol's
\* pending-snapshot flag is false afterwards, and the run sends neither an
\* unsubscribe nor a subscribe and starts no recovery.
C12_MismatchOnlyLogged ==
    /\ \A s \in Symbols : \A data \in NotifyMessages :
          (IsSnapshotFor(data, s) \/ IsUpdateFor(data, s))
          => \A h \in {Handled(data)} :
                (h.kind \in {"snapshot", "applied"} /\ CsMismatch(data, s, h))
                => LET b == h.orderbooks[s]
                       applied == IF IsSnapshotFor(data, s)
                                  THEN update_from_snapshot(BookFor(s), data).book
                                  ELSE apply_update(BookFor(s), data).book
                   IN /\ h.warned
                      /\ b = applied
                      /\ b.sequence_no = CarriedSeq(data)
                      /\ IsSnapshotFor(data, s)
                            => /\ SameBag(b.bids, ListedInts(s, BuyLevels(data)))
                               /\ SameBag(b.asks, ListedInts(s, SellLevels(data)))
                      /\ EachNotified(h.notified, s, b)
                      /\ Has(h.pending, s) /\ h.pending[s] = FALSE
    /\ checksum_warned
          => /\ outcome \in {"snapshot", "applied"}
             /\ sent = <<>>
             /\ recovering = NoTask
             /\ \A i \in 1..Len(notified) :
                   /\ Has(pending_snapshots, notified[i][2])
                   /\ pending_snapshots[notified[i][2]] = FALSE

\* C12 witness: a delta with a wrong "cs" was applied over a snapshot; two
\* callbacks were notified, nothing was sent, the symbol stays synced.
C12_Witness ==
    \E s \in DOMAIN orderbooks :
        /\ checksum_warned /\ outcome = "applied"
        /\ orderbooks[s].sequence_no = 2
        /\ Len(notified) = 2 /\ notified[1][3] = orderbooks[s]
        /\ pending_snapshots[s] = FALSE
        /\ sent = <<>> /\ recovering = NoTask

\* C13: every snapshot or update the handler applies makes one invocation
\* per registered orderbook callback, with the message's symbol and that
\* symbol's book as the handler left it.
C13_AppliedNotifiesEach ==
    /\ \A s \in Symbols : \A data \in NotifyMessages :
          (IsSnapshotFor(data, s) \/ IsUpdateFor(data, s))
          => \A h \in {Handled(data)} :
                h.kind \in {"snapshot", "applied"}
                => EachNotified(h.notified, s, h.orderbooks[s])
    /\ outcome \in {"snapshot", "applied"}
          => /\ Len(notified) <= Len(orderbook_callbacks)
             /\ \A i \in 1..Len(notified) :
                   /\ notified[i][1] = orderbook_callbacks[i]
                   /\ notified[i][2] \in DOMAIN orderbooks
                   /\ notified[i][3] = orderbooks[notified[i][2]]

\* C13 witness: a delta without checksum trouble was applied while two
\* different callbacks were registered; each got the symbol and the book.
C13_Witness ==
    \E s \in DOMAIN orderbooks :
        /\ outcome = "applied" /\ ~checksum_warned
        /\ Len(orderbook_callbacks) = 2
        /\ orderbook_callbacks[1] # orderbook_callbacks[2]
        /\ notified = <<<<orderbook_callbacks[1], s, orderbooks[s]>>,
                        <<orderbook_callbacks[2], s, orderbooks[s]>>>>

\* The ladder after is the ladder before changed by one entry (p, z):
\* the first level at p taken out (z = 0) or given size z; with no level
\* at p, (p, z) put in at its place in the order (z > 0) or nothing (z = 0).
\* Every other level keeps its price, its size and its place among the
\* others.
Upserted(before, after, p, z, reverse) ==
    LET at == {i \in 1..Len(before) : before[i][1] = p}
    IN IF at # {}
       THEN LET i == CHOOSE k \in at : \A j \in at : k <= j
            IN IF z = 0
               THEN /\ Len(after) = Len(before) - 1
                    /\ \A j \in 1..Len(after) :
                          after[j] = IF j < i THEN before[j] ELSE before[j + 1]
               ELSE /\ Len(after) = Len(before)
                    /\ after[i] = <<p, z>>
                    /\ \A j \in 1..Len(after) : j # i => after[j] = before[j]
       ELSE IF z > 0
       THEN /\ SameBag(after, Append(before, <<p, z>>))
            /\ StrictlyOrdered(before, reverse)
                  => LET ahead == Cardinality({j \in 1..Len(before) :
                                     IF reverse THEN before[j][1] > p
                                     ELSE before[j][1] < p})
                     IN /\ after[ahead + 1] = <<p, z>>
                        /\ \A j \in 1..Len(before) :
                              before[j] = after[IF j <= ahead THEN j ELSE j + 1]
       ELSE after = before

\* C14: a delta entry (price, size) changes its side so: a level present
\* at the price is removed when size is 0 and has only its size replaced
\* when size > 0; with no level at the price the entry is inserted at its
\* sorted position when size > 0 and nothing changes when size is 0.  The
\* other levels of the side and the whole opposite side stay as they were.
C14_DeltaEntry ==
    \A s \in DOMAIN orderbooks : \A data \in QuoteMessages :
        IsUpdateFor(data, s)
        => LET book == orderbooks[s]
               r == apply_update(book, data)
               buy == BuyLevels(data)
               sell == SellLevels(data)
           IN r.result = "ok"
              => /\ buy # <<>>
                      => /\ Upserted(book.bids, r.book.bids,
                                     price_to_integer(s, LevelPriceStr(buy[1])),
                                     size_to_integer(LevelSizeStr(buy[1])), TRUE)
                         /\ r.book.asks = book.asks
                 /\ sell # <<>>
                      => /\ Upserted(book.asks, r.book.asks,
                                     price_to_integer(s, LevelPriceStr(sell[1])),
                                     size_to_integer(LevelSizeStr(sell[1])), FALSE)
                         /\ r.book.bids = book.bids

\* C14 witness: over a snapshot of one bid and one ask, one delta put a
\* better bid in front of the first and the next removed the only ask.
C14_Witness ==
    \E s \in DOMAIN orderbooks :
        /\ outcome = "applied"
        /\ orderbooks[s].sequence_no = 3
        /\ orderbooks[s].bids = <<<<200, 7>>, <<100, 5>>>>
        /\ orderbooks[s].asks = <<>>
        /\ orderbooks[s].raw_asks = <<>>

\* C15: no ladder of any book holds a level of size 0, whatever snapshots
\* and deltas were applied.
C15_NoZeroSizeLevel ==
    \A s \in DOMAIN orderbooks :
        /\ \A i \in 1..Len(orderbooks[s].bids) : orderbooks[s].bids[i][2] # 0
        /\ \A i \in 1..Len(orderbooks[s].asks) : orderbooks[s].asks[i][2] # 0

\* C16: get_best_bid returns the bid level of the highest price and
\* get_best_ask the ask level of the lowest price; each returns (0, 0)
\* exactly when its side is empty.
C16_BestQuotes ==
    \A s \in DOMAIN orderbooks :
        LET book == orderbooks[s]
        IN /\ book.bids # <<>>
                => /\ get_best_bid(book) \in Elements(book.bids)
                   /\ \A i \in 1..Len(book.bids) :
                         book.bids[i][1] <= get_best_bid(book)[1]
           /\ book.asks # <<>>
                => /\ get_best_ask(book) \in Elements(book.asks)
                   /\ \A i \in 1..Len(book.asks) :
                         book.asks[i][1] >= get_best_ask(book)[1]
           /\ (get_best_bid(book) = <<0, 0>>) <=> (book.bids = <<>>)
           /\ (get_best_ask(book) = <<0, 0>>) <=> (book.asks = <<>>)

\* m is the floor of n / 2.
IsFloorOfHalf(m, n) == 2 * m <= n /\ n < 2 * (m + 1)

\* C17: with both sides non-empty get_mid_price is the floor of half the
\* sum of the best bid price and the best ask price and get_spread is the
\* best ask price minus the best bid price; with a side empty both are 0.
C17_MidAndSpread ==
    \A s \in DOMAIN orderbooks :
        LET book == orderbooks[s]
            bid == get_best_bid(book)[1]
            ask == get_best_ask(book)[1]
        IN IF book.bids # <<>> /\ book.asks # <<>>
           THEN /\ IsFloorOfHalf(get_mid_price(book), bid + ask)
                /\ get_spread(book) = ask - bid
           ELSE /\ get_mid_price(book) = 0
                /\ get_spread(book) = 0

\* C17 witness: a delta set the ask one tick above 2.0 over a best bid of
\* 1.0: the sum of the prices is odd.
C17_Witness ==
    \E s \in DOMAIN orderbooks :
        /\ outcome = "applied"
        /\ orderbooks[s].bids # <<>> /\ orderbooks[s].asks # <<>>
        /\ get_best_bid(orderbooks[s])[1] = 100
        /\ get_best_ask(orderbooks[s])[1] = 201
        /\ get_mid_price(orderbooks[s]) = 150
        /\ get_spread(orderbooks[s]) = 101

\* Both sides hold a level and the best bid price is below the best ask
\* price.
Uncrossed(book) ==
    /\ book.bids # <<>> /\ book.asks # <<>>
    /\ get_best_bid(book)[1] < get_best_ask(book)[1]

\* C18 as stated: on every book with both sides non-empty and the best bid
\* below the best ask, get_mid_price lies strictly between the two prices
\* and get_spread is positive and is the ask price minus the bid price.
C18_MidStrictlyBetween ==
    \A s \in DOMAIN orderbooks :
        Uncrossed(orderbooks[s])
        => LET book == orderbooks[s]
           IN /\ get_best_bid(book)[1] < get_mid_price(book)
              /\ get_mid_price(book) < get_best_ask(book)[1]
              /\ get_spread(book) > 0
              /\ get_spread(book) = get_best_ask(book)[1] - get_best_bid(book)[1]

\* C18 amended: on every such book get_mid_price is at least the best bid
\* price and below the best ask price; it is the bid price itself when the
\* two are one unit apart and strictly between them otherwise; get_spread
\* is positive and is the ask price minus the bid price.
C18_MidWithinQuotes ==
    \A s \in DOMAIN orderbooks :
        Uncrossed(orderbooks[s])
        => LET book == orderbooks[s]
               bid == get_best_bid(book)[1]
               ask == get_best_ask(book)[1]
           IN /\ bid <= get_mid_price(book)
              /\ get_mid_price(book) < ask
              /\ (get_mid_price(book) = bid) <=> (ask = bid + 1)
              /\ get_spread(book) > 0
              /\ get_spread(book) = ask - bid

\* C18 witness: the best bid is 2.0 and the best ask 2.01, one unit apart
\* at the scale of the 0.01 tick.
C18_Witness ==
    \E s \in DOMAIN orderbooks :
        /\ outcome \in {"snapshot", "applied"}
        /\ Uncrossed(orderbooks[s])
        /\ get_best_bid(orderbooks[s])[1] = 200
        /\ get_best_ask(orderbooks[s])[1] = 201

\* The step is subscribe_orderbook tracking s anew: the channel is
\* subscribed, the book is empty with sequence_no 0, the flag is true.
TrackedAnew(s) ==
    /\ Channel(s) \in subscriptions'
    /\ Has(orderbooks', s) /\ orderbooks'[s] = NewOrderBook(s)
    /\ orderbooks'[s].sequence_no = 0
    /\ Has(pending_snapshots', s) /\ pending_snapshots'[s] = TRUE

C19_Step ==
    \A s \in Symbols :
        \* subscribe_orderbook on an untracked symbol
        /\ (/\ ~Has(orderbooks, s)
            /\ Channel(s) \notin subscriptions /\ Channel(s) \in subscriptions'
            /\ recovering' = recovering)
           => TrackedAnew(s)
        \* unsubscribe_orderbook, the lock free
        /\ (/\ Channel(s) \in subscriptions /\ Channel(s) \notin subscriptions'
            /\ recovering = NoTask /\ recovering' = NoTask)
           => ~Has(orderbooks', s) /\ ~Has(pending_snapshots', s)
        \* a book or a flag that is not there appears only by subscribing
        /\ (~Has(orderbooks, s) /\ Has(orderbooks', s)) => TrackedAnew(s)
        /\ (~Has(pending_snapshots, s) /\ Has(pending_snapshots', s))
           => TrackedAnew(s)

\* C19: subscribe_orderbook for a symbol not tracked creates an empty book
\* with sequence_no 0 and sets the symbol's pending-snapshot flag;
\* unsubscribe_orderbook removes the book and the flag, and neither comes
\* back for the symbol before subscribe_orderbook is called again,
\* whatever messages for the symbol arrive in between.
C19_DiscardedUntilSubscribed == [][C19_Step]_vars

\* While a handler run is suspended between looking up the book of
\* symbol held and the end of its locked section, no other run gets past
\* the lock (the only runs that end are those that return before it), and
\* the book and the flag of that symbol are what the suspended run left.
C20_Step ==
    \A held \in Symbols :
        recovering = held
        => /\ outcome' \in {outcome, "no_symbol", "error", "resubscribed"}
           /\ outcome' = "resubscribed" => recovering' = NoTask
           /\ outcome' # "resubscribed" => recovering' = held
           /\ Has(orderbooks, held) /\ Has(orderbooks', held)
           /\ orderbooks'[held] = orderbooks[held]
           /\ Has(pending_snapshots', held)
           /\ pending_snapshots'[held] = pending_snapshots[held]
           /\ notified' = <<>> /\ checksum_warned' = FALSE

\* C20: snapshot and delta application is serialized: from the moment a
\* handler run looks up a symbol's book until its apply and checksum check
\* are over, no other handler run reads or changes that book; all of it
\* happens under the manager's lock.
C20_AppliesSerialized == [][C20_Step]_vars

\* C20 witness: a run is suspended in gap recovery, holding the lock, and
\* a second invocation has come and gone without reaching the lock.
C20_Witness ==
    /\ recovering # NoTask
    /\ outcome \in {"no_symbol", "error"}
    /\ Has(orderbooks, recovering) /\ orderbooks[recovering].sequence_no > 0

\* C21: gap recovery does not stall message processing: while the
\* unsubscribe request, the settling delay and the resubscribe request of
\* one symbol's recovery are in progress, a message that arrives is
\* processed without waiting for the recovery to complete.
C21_RecoveryDoesNotStall ==
    recovering # NoTask
    => \A data \in SeqMessages : ENABLED HandleOrderbookMessage(data)

\* C22: two messages that carry the same sequence number and the same
\* price and size strings and differ only in encoding produce identical
\* book state (ladders, raw ladders, sequence_no) when update_from_snapshot
\* or apply_update applies them to equal books.
C22_EncodingsAgree ==
    \A s \in Symbols : \A data \in EncodingBase :
        data["symbol"] = s
        => \A a \in {update_from_snapshot(BookFor(s), data)} :
           \A b \in {apply_update(BookFor(s), data)} :
           \A other \in Encodings(data) :
               /\ update_from_snapshot(BookFor(s), other) = a
               /\ apply_update(BookFor(s), other) = b

\* C22 witness: a synced book with levels on both sides, and a delta in the
\* object encoding under buy/sell and last_sequence_no that applies to it
\* and changes a ladder.
C22_Witness ==
    \E s \in Symbols : \E data \in EncodingBase :
        /\ Has(orderbooks, s) /\ IsUpdateFor(data, s)
        /\ orderbooks[s].bids # <<>> /\ orderbooks[s].asks # <<>>
        /\ LET other == Recode(data, <<"buy", "sell">>, "object",
                                "last_sequence_no")
               after == apply_update(orderbooks[s], other)
           IN /\ after.result = "ok"
              /\ after.book.bids # orderbooks[s].bids
              /\ after.book.raw_bids # orderbooks[s].raw_bids
              /\ after.book.sequence_no = orderbooks[s].sequence_no + 1

\* One run of the handler on an orderbook message classified as "error".
C23_Step ==
    \A data \in OtherMessages :
        (~MissingSymbol(data) /\ MsgType(data) = "error"
         /\ HandleOrderbookMessage(data))
        => /\ outcome' = "error"
           /\ orderbooks' = orderbooks
           /\ pending_snapshots' = pending_snapshots
           /\ sent' = sent /\ subscriptions' = subscriptions
           /\ recovering' = recovering
           /\ notified' = <<>> /\ checksum_warned' = FALSE

\* C23: an orderbook message classified as "error" is logged and dropped:
\* no book is created or changed, no pending-snapshot flag changes, no
\* transport request is issued, no callback is invoked and no exception
\* escapes the handler.
C23_ErrorDropped == [][C23_Step]_vars

\* C23 witness: an error message was handled while the symbol's book was
\* subscribed and empty of any snapshot, another while it was synced.
C23_Witness ==
    /\ outcome = "error"
    /\ \E s \in Symbols :
          /\ Has(orderbooks, s) /\ Has(pending_snapshots, s)
          /\ ~pending_snapshots[s] /\ orderbooks[s].bids # <<>>
          /\ recovering = NoTask

Registered(symbol) == Has(product_scales, symbol)

\* The price written by s is a whole number of ticks of the symbol.
ExactMultiple(symbol, s) ==
    /\ PriceParses(s)
    /\ DecEq(Quotient(price_to_integer(symbol, s), get_scale(symbol), 0),
             Decimal(s))
    /\ price_to_integer(symbol, s) % get_tick_size(symbol) = 0

RoundTrip(symbol, s) == integer_to_price(symbol, price_to_integer(symbol, s))

\* C24 as claimed: for a registered symbol and any decimal price string s
\* that is an exact multiple of the tick size,
\* integer_to_price(symbol, price_to_integer(symbol, s)) equals s.
C24_RoundTripAnyString ==
    \A symbol \in ConvertSymbols : \A s \in PriceInputs :
        (Registered(symbol) /\ ExactMultiple(symbol, s))
        => RoundTrip(symbol, s) = s

\* C24, amended: for a registered symbol and a price string s that
\* integer_to_price itself returns for a whole number of ticks, the round
\* trip equals s; for any other spelling of a multiple of the tick size
\* the round trip is a string that integer_to_price returns and that
\* writes the same number.
C24_RoundTripOwnStrings ==
    \A symbol \in ConvertSymbols :
        Registered(symbol)
        => /\ \A n \in PriceInts :
                n % get_tick_size(symbol) = 0
                => \A s \in {integer_to_price(symbol, n)} :
                      /\ PriceParses(s)
                      /\ price_to_integer(symbol, s) = n
                      /\ RoundTrip(symbol, s) = s
           /\ \A s \in PriceInputs :
                ExactMultiple(symbol, s)
                => /\ PriceParses(RoundTrip(symbol, s))
                   /\ DecEq(Decimal(RoundTrip(symbol, s)), Decimal(s))

\* C24 witness: integer_to_price has just returned "12.5" for a symbol
\* registered with tick size 0.5.
C24_Witness ==
    /\ converted.op = "integer_to_price"
    /\ Registered(converted.symbol)
    /\ get_tick_size(converted.symbol) = 5 /\ get_scale(converted.symbol) = 10
    /\ converted.arg = 125 /\ converted.value = P_12_5

\* C25: normalize_price(symbol, p) for a symbol with integer tick size
\* t > 1 returns the multiple of t nearest to p, a remainder of exactly
\* half a tick rounded up and any smaller remainder rounded down; the
\* result is a multiple of t, equals p when p is one, and for tick size
\* integer 1 the input is returned unchanged.
C25_NearestTick ==
    \A symbol \in ConvertSymbols : \A p \in PriceInts :
        LET t == get_tick_size(symbol)
            r == normalize_price(symbol, p)
        IN IF t = 1 THEN r = p
           ELSE /\ r % t = 0
                /\ (p % t = 0) => r = p
                /\ (2 * (p % t) >= t) => r = p + t - (p % t)
                /\ (2 * (p % t) < t) => r = p - (p % t)

\* The number a size stands for.
IsCount(size) ==
    IF size.isinstance = "int" THEN TRUE ELSE IsIntLiteral(size.value)

\* C26: size_to_integer returns an integer-valued size (an int or a digit
\* string) unchanged and multiplies a size carrying a decimal point by
\* 10^8; integer_to_size inverts it for every size: an integer contract
\* count comes back unchanged, a decimal size comes back as the number it
\* was.
C26_SizeRoundTrip ==
    (converted.op = "size_to_integer" /\ ~converted.raised)
    => LET size == converted.arg
           size_int == converted.value
       IN IF IsCount(size)
          THEN LET n == IF size.isinstance = "int" THEN size.value
                        ELSE DigitsValue(size.value, 0)
               IN /\ size_int = n
                  /\ integer_to_size(size_int) = IntDigits(n)
          ELSE /\ size_int = MulDivPow10(Decimal(size.value).coef, 100000000,
                                         Decimal(size.value).exp)
               /\ DecEq(Decimal(integer_to_size(size_int)),
                        Decimal(size.value))

\* One step of the converter, seen from a symbol that is not registered
\* and from the symbols a registration is not about.
C27_Step ==
    /\ \A u \in ConvertSymbols :
          ~Registered(u)
          => /\ get_scale(u) = 100000000
             /\ \A p \in PriceInts : normalize_price(u, p) = p
             /\ price_to_integer(u, P_1_5) = 150000000
             /\ price_to_integer(u, P_1_005) = 100500000
             /\ integer_to_price(u, 150000000) = P_1_5
             /\ integer_to_price(u, 1250)
                  = <<"0", ".", "0", "0", "0", "0", "1", "2", "5">>
             /\ (/\ converted'.op \in {"price_to_integer", "integer_to_price",
                                      "normalize_price"}
                 /\ converted'.symbol = u /\ converted'.raised)
                => ~PriceParses(converted'.arg)
    /\ converted'.op = "register_product"
       => \A u \in ConvertSymbols \ {converted'.symbol} :
             /\ Get(product_scales', u, 100000000) = get_scale(u)
             /\ Registered(u) <=> Has(product_scales', u)

\* C27: for a symbol that was never registered, price_to_integer and
\* integer_to_price use the scale 10^8 and normalize_price returns its
\* input unchanged; no conversion reports an unknown-symbol error, and
\* registering one symbol never changes the scale used for another.
C27_UnregisteredDefaults == [][C27_Step]_vars

\* C27 witness: one symbol is registered with a scale other than the
\* default, the other is not, and a price of the unregistered one was
\* converted.
C27_Witness ==
    /\ converted.op = "price_to_integer" /\ ~converted.raised
    /\ ~Registered(converted.symbol)
    /\ converted.arg = P_1_5 /\ converted.value = 150000000
    /\ \E s \in ConvertSymbols : Registered(s) /\ get_scale(s) = 10

Delivered(handler, data) ==
    <<handler, data>> \in Elements(handle_message(data).tasks)

\* C28: _handle_message delivers each order-book message to the handlers
\* of the channel it belongs to: a message carrying action "snapshot" or
\* "update" for symbol S to every handler registered for "l2_updates.S",
\* a message with type "l2_orderbook" for S to every handler registered
\* for "l2_orderbook.S".
C28_DeliveredToChannel ==
    \A data \in WsMessages : \A s \in Symbols :
        /\ (/\ ~MissingSymbol(data) /\ data["symbol"] = s
            /\ Get(data, "action", "None") \in {"snapshot", "update"})
           => \A h \in Elements(Get(channel_handlers, <<"l2_updates", s>>, <<>>)) :
                 Delivered(h, data)
        /\ (/\ ~MissingSymbol(data) /\ data["symbol"] = s
            /\ Get(data, "type", "None") = "l2_orderbook")
           => \A h \in Elements(Get(channel_handlers, <<"l2_orderbook", s>>, <<>>)) :
                 Delivered(h, data)

\* C29: after any sequence of trade messages, the stored trade list of
\* each symbol has at most _max_trades_per_symbol entries, consists of the
\* most recently received trades of that symbol, and keeps them in
\* arrival order.
C29_NewestTradesKept ==
    \A s \in DOMAIN trades :
        LET stored == trades[s]
            log == trade_log[s]
            kept == Len(stored)
        IN /\ kept <= max_trades_per_symbol
           /\ kept = IF Len(log) < max_trades_per_symbol THEN Len(log)
                     ELSE max_trades_per_symbol
           /\ \A i \in 1..kept : stored[i] = log[Len(log) - kept + i]

\* C29 witness: more trades were received than the list holds, the oldest
\* are gone.
C29_Witness ==
    \E s \in DOMAIN trades :
        /\ Len(trade_log[s]) > max_trades_per_symbol + 1
        /\ Len(trades[s]) = max_trades_per_symbol
        /\ trades[s][1].timestamp > 1

\* C30: cancel_order returns True and sets the order's status to
\* "cancelled" exactly when the order is known and its status is "open" or
\* "pending" as the call wakes from its latency; for an unknown, already
\* cancelled or filled order it returns False and no order changes.
C30_Step ==
    \A i \in 1..Len(paper_tasks) :
       (/\ paper_tasks[i].op = "cancel_order"
        /\ paper_tasks' = RemoveAt(paper_tasks, i)
        /\ order_counter' = order_counter)
       => LET id == paper_tasks[i].client_order_id
              cancellable ==
                 /\ id \in DOMAIN orders
                 /\ orders[id].status \in {"open", "pending"}
          IN /\ cancel_result'.client_order_id = id
             /\ cancel_result'.returned = cancellable
             /\ DOMAIN orders' = DOMAIN orders
             /\ \A k \in DOMAIN orders :
                   orders'[k] =
                      IF k = id /\ cancellable
                      THEN [orders[k] EXCEPT !.status = "cancelled"]
                      ELSE orders[k]
C30_CancelExactlyWhenOpen == [][C30_Step]_vars

\* A cancel of the filled market order returned False after a cancel of the
\* limit order had succeeded.
C30_Witness ==
    /\ cancel_result = [client_order_id |-> "o2", returned |-> FALSE]
    /\ Has(orders, "o1") /\ orders["o1"].status = "cancelled"
    /\ Has(orders, "o2") /\ orders["o2"].status = "filled"

\* C31: a market order is stored with status "open" by place_order and,
\* once open, is eventually filled in full (status "filled", filled_size
\* equal to size) or cancelled; when the fill task wakes to find the order
\* cancelled it changes no order.
C31_Step ==
    \A i \in 1..Len(paper_tasks) :
       /\ (/\ paper_tasks[i].op = "place_order"
           /\ paper_tasks[i].order.order_type = "market_order"
           /\ order_counter' = order_counter + 1
           /\ Len(paper_tasks') >= Len(paper_tasks) - 1
           /\ SubSeq(paper_tasks', 1, Len(paper_tasks) - 1)
                 = RemoveAt(paper_tasks, i))
          => LET id == paper_tasks[i].order.client_order_id
             IN /\ Has(orders', id)
                /\ orders'[id].status = "open"
                /\ \E j \in 1..Len(paper_tasks') :
                      /\ paper_tasks'[j].op = "_simulate_fill"
                      /\ paper_tasks'[j].order.client_order_id = id
       /\ (/\ paper_tasks[i].op = "_simulate_fill"
           /\ paper_tasks' = RemoveAt(paper_tasks, i)
           /\ orders[paper_tasks[i].order.client_order_id].status
                 = "cancelled")
          => orders' = orders
C31_OpenMarketOrder ==
    /\ Has(orders, "o2")
    /\ orders["o2"].status = "open"
C31_FilledOrCancelled ==
    /\ Has(orders, "o2")
    /\ \/ /\ orders["o2"].status = "filled"
          /\ orders["o2"].filled_size = orders["o2"].size
       \/ orders["o2"].status = "cancelled"
C31_MarketOrderFilled ==
    /\ [][C31_Step]_vars
    /\ (C31_OpenMarketOrder ~> C31_FilledOrCancelled)

\* The fill task filled the market order in full and every task is done.
C31_Witness ==
    /\ Has(orders, "o2")
    /\ orders["o2"].status = "filled"
    /\ orders["o2"].filled_size = 5
    /\ paper_tasks = <<>>
    /\ cancel_result = NoCancel

\* C32 as claimed: every delta applied to a symbol's book carries the
\* sequence number of the book plus one, whatever that number is (0, after
\* a snapshot numbered 0 or without a sequence field, included).
C32_StepAnySnapshot ==
    \A s \in DOMAIN orderbooks \cap DOMAIN orderbooks' :
       (outcome' = "applied" /\ orderbooks'[s] # orderbooks[s])
       => orderbooks'[s].sequence_no = orderbooks[s].sequence_no + 1
C32_ContiguousAfterAnySnapshot == [][C32_StepAnySnapshot]_vars

\* C32: every delta applied to a book whose sequence number is positive
\* carries that number plus one, and while the run since a snapshot
\* numbered N > 0 is intact the k-th delta applied carries N + k; a book
\* at sequence number 0 takes a delta of any number.
C32_StepPositive ==
    \A s \in DOMAIN orderbooks \cap DOMAIN orderbooks' :
       (/\ outcome' = "applied"
        /\ orderbooks'[s] # orderbooks[s]
        /\ orderbooks[s].sequence_no > 0)
       => /\ orderbooks'[s].sequence_no = orderbooks[s].sequence_no + 1
          /\ (run[s].n >= 0 /\ run[s].n < MaxSeq)
                => /\ run'[s].snap = run[s].snap
                   /\ run'[s].n = run[s].n + 1
                   /\ orderbooks'[s].sequence_no = run'[s].snap + run'[s].n
C32_ContiguousAfterPositiveSnapshot == [][C32_StepPositive]_vars

\* The deltas numbered 2 and 3 were applied after a snapshot numbered 1,
\* and the symbol is synced.
C32_Witness ==
    /\ outcome = "applied"
    /\ \E s \in DOMAIN orderbooks :
          /\ run[s] = [snap |-> 1, n |-> 2]
          /\ orderbooks[s].sequence_no = 3
          /\ ~IsPending(s)

\* C33: a call of subscribe_orderbook for a symbol that has a book already
\* (a resubscribe no gap caused) leaves the symbol awaiting a snapshot:
\* its pending-snapshot flag is true afterwards.
C33_Step ==
    \A s \in Symbols :
       (/\ Has(orderbooks, s)
        /\ Len(Get(channel_handlers', Channel(s), <<>>))
              > Len(Get(channel_handlers, Channel(s), <<>>)))
       => Get(pending_snapshots', s, FALSE)
C33_ResubscribeAwaitsSnapshot == [][C33_Step]_vars

\* A run of the handler rejects as a gap the update that the run before it
\* applied: both are tasks of one delivery of the message.
HandledTwiceGap ==
    /\ ready_tasks # <<>>
    /\ ready_tasks' = Tail(ready_tasks)
    /\ outcome = "applied"
    /\ outcome' = "gap"
    /\ Len(ManagerTasks(dispatched.tasks)) >= 2
    /\ Head(ready_tasks) = ManagerTasks(dispatched.tasks)[1]
    /\ MessageSeq(Head(ready_tasks))
          = BookFor(Head(ready_tasks)["symbol"]).sequence_no

\* C34: one delivery of a message makes the manager's handler run at most
\* once, however often subscribe_orderbook was called for the symbol, and
\* no update is rejected as a gap, with recovery begun, by a second run of
\* the handler on the message that was just applied.
C34_Step ==
    /\ Len(ManagerTasks(dispatched'.tasks)) <= 1
    /\ ~HandledTwiceGap
C34_HandledOnce == [][C34_Step]_vars

\* The handler creates a book for the symbol and applies an update to it
\* in the same run.
UpdateOnFreshBook(s) ==
    /\ ~Has(orderbooks, s)
    /\ Has(orderbooks', s)
    /\ outcome' = "applied"

\* C35: a pending-snapshot flag that is false refers to a book the
\* manager holds, and no update is applied to a book the handler has just
\* created, which never received a snapshot; also after unsubscribe or
\* cleanup and late messages.
C35_Step ==
    \A s \in Symbols :
       /\ ~Get(pending_snapshots', s, TRUE) => Has(orderbooks', s)
       /\ ~UpdateOnFreshBook(s)
C35_UpdateOnlyAfterSnapshot == [][C35_Step]_vars

\* C36: a book handed to a consumer, by get_orderbook or to the task of a
\* callback, is not altered by the messages applied afterwards: what the
\* reference leads to is what the consumer was given.
C36_StableView == \A v \in views : v.now = v.seen

\* C37: an order-book message that raised while it was handled leaves the
\* manager's lock free: a snapshot and a trade message that come next are
\* handled.  (Trade messages with entries that do not parse are part of
\* the feed; such entries are skipped inside the run.)
C37_RaisedReleasesLock ==
    outcome = "raised" =>
       /\ LockFree
       /\ \A s \in Symbols :
             /\ ENABLED HandleOrderbookMessage(
                   L2Updates("snapshot", s, 1, 1, <<ListLevel(P_1_0, S_5)>>, <<>>))
             /\ ENABLED HandleTradeMessage(
                   BadTradeEntry(1) @@ [type |-> "all_trades", symbol |-> s])

\* A snapshot synced the book, an update raised after it wrote its first
\* level, and trades were stored beside it.
C37_Witness ==
    \E s \in Symbols :
       /\ outcome = "raised"
       /\ ~IsPending(s)
       /\ Has(orderbooks, s) /\ orderbooks[s].sequence_no = 1
       /\ Len(Get(trades, s, <<>>)) > 0

\* C38: the callbacks are invoked only by a run that applied its message.
\* A run that discarded an update while a snapshot was pending, met a
\* sequence gap, got an error message, a message without symbol or of an
\* unknown type, or raised, creates no callback task.
C38_OnlyAppliedNotifies ==
    /\ notified # <<>> => outcome \in {"snapshot", "applied"}
    /\ \A data \in FaultMessages \cup OtherMessages :
          \A h \in {Handled(data)} :
             h.kind \in {"skipped", "gap", "error", "no_symbol", "unknown",
                         "raised"}
             => h.notified = <<>>

\* Two callbacks are registered and the latest run met a gap on a synced
\* book: no task was created.
C38_Witness ==
    /\ outcome = "gap"
    /\ Len(orderbook_callbacks) = 2
    /\ notified = <<>>
    /\ recovering \in Symbols

\* C39: after the server closed the socket of a running client, the
\* client has an open socket again on which every channel of its
\* subscription set was requested (or the caller disconnected it).
C39_Dropped == connection.running /\ connection.ws = "closed"
C39_Restored ==
    \/ /\ connection.ws = "open"
       /\ connection.requested = connection.subscriptions
    \/ ~connection.running /\ connection.receive_task = "none"
C39_ReconnectsAndResubscribes == C39_Dropped ~> C39_Restored

\* The message without its timestamp field; the books with their
\* timestamps blanked.
WithoutTimestamp(data) ==
    [k \in DOMAIN data \ {"timestamp", "timestamp_str"} |-> data[k]]
Untimed(books) ==
    [s \in DOMAIN books |-> [books[s] EXCEPT !.timestamp = 0]]

\* C40: the timestamp of a message has no part in what the handler
\* decides.  Two messages that differ in their timestamp fields only,
\* handled in the same state, are both applied or both not, and leave the
\* same ladders, raw ladders, sequence numbers and pending flags; and the
\* timestamp the book holds changes none of this.
C40_TimestampIgnored ==
    \A d1 \in TimestampMessages : \A d2 \in TimestampMessages :
       WithoutTimestamp(d1) = WithoutTimestamp(d2)
       => \A h1 \in {Handled(d1)} : \A h2 \in {Handled(d2)} :
             /\ h1.kind = h2.kind
             /\ h1.pending = h2.pending
             /\ Untimed(h1.orderbooks) = Untimed(h2.orderbooks)
             /\ \A s \in DOMAIN orderbooks :
                   \A r \in {apply_update([orderbooks[s] EXCEPT !.timestamp = 0],
                                          d1)} :
                      \A q \in {apply_update(orderbooks[s], d1)} :
                         /\ r.result = q.result
                         /\ [r.book EXCEPT !.timestamp = 0]
                               = [q.book EXCEPT !.timestamp = 0]

====
